---- MODULE Spec2Model ----
(***************************************************************************)
(* Verification model of the spoken-claim verification system:             *)
(*   - WERCalculator            (utils/wer_integration.py)                 *)
(*   - BaselineModel            (components/baseline_model.py)             *)
(*   - EvidenceReranker         (components/evidence_reranker.py)          *)
(*   - EvidenceRetriever        (components/evidence_retriever.py)         *)
(*   - ClaimVerificationPipeline (app.py)                                  *)
(*   - BatchEvaluator           (evaluation/batch_evaluator.py)            *)
(*   - GeminiService            (components/gemini_service.py)             *)
(*   - the /transcribe handler  (whisper_service/whisper_server.py)        *)
(*                                                                         *)
(* Text is modelled as a sequence of one-character strings, so that        *)
(* splitting, lower-casing and regular-expression matching are computed    *)
(* and not assumed.  Fractions are exact rationals [num, den].             *)
(***************************************************************************)
EXTENDS Integers, Sequences, FiniteSets, TLC

VARIABLES
    \* ---- WERCalculator ----
    reference,      \* calculate_wer argument (text)
    hypothesis,     \* calculate_wer argument (text)
    wer_pc,         \* "idle" | "input" | "done"
    wer,            \* value returned by calculate_wer
    distance,       \* value returned by _edit_distance on the split texts
    \* ---- BaselineModel ----
    b_claim,        \* verify_claim argument claim (text)
    b_evidence,     \* verify_claim argument evidence (text)
    b_pc,           \* "idle" | "input" | "done"
    b_result,       \* BaselineVerification returned by verify_claim
    \* ---- EvidenceReranker ----
    r_claim,        \* rerank_evidence argument claim (text)
    r_evidence,     \* rerank_evidence argument evidence_list
    r_weights,      \* rerank_evidence argument weights (NoWeights when absent)
    r_pc,           \* "idle" | "input" | "done"
    r_ranked,       \* list of RankedEvidence returned by rerank_evidence
    \* ---- batch operations ----
    t_op,           \* the batch operation that was called
    t_input,        \* its arguments
    t_raises,       \* per item: does the call made for the item raise
    t_output,       \* the value it returned
    t_called,       \* the items for which the per-item call was made, in order
    \* ---- ClaimVerificationPipeline.process_video ----
    p_pc,           \* the stage process_video is about to run; "returned" at the end
    save_to_db,     \* argument save_to_db
    results,        \* the dictionary process_video builds and returns
    audio_path,     \* local audio_path
    transcript,     \* local transcript
    claims_data,    \* local claims_data
    evidence_dict,  \* local evidence_dict
    verifications,  \* local verifications
    clock,          \* time.time(), a logical clock
    pipeline_start, \* local pipeline_start
    p_calls,        \* the stages invoked so far, in order
    metrics,        \* component tags of the latency metrics written so far
    gemini_calls,   \* the gemini_service.verify_claim calls made, in order
    db,             \* the rows of the relational storage and the inserts attempted
    p_failed,       \* the stages whose collaborator call raised
    \* ---- a call of a stateless operation ----
    c_op,           \* the operation that was called, "none" before the call
    c_args,         \* its arguments
    c_out,          \* its outcome: the value returned or the exception raised
    \* ---- whisper_server: the /transcribe requests ----
    s_pc,           \* per request: where its handler stands
    s_path,         \* per request: local temp_file_path
    s_f,            \* per request: the file its handle f is open on
    s_content,      \* per request: local content, the bytes read from the upload
    s_heard,        \* per request: the bytes whisper_model.transcribe read
    s_response,     \* per request: the status code of the response
    s_tmp,          \* the directory /tmp: path -> file, 0 when there is none
    s_files,        \* the contents of the files, by file number
    s_loop          \* the request the event loop is running, 0 when it is free

wvars == <<reference, hypothesis, wer_pc, wer, distance>>

bvars == <<b_claim, b_evidence, b_pc, b_result>>

rvars == <<r_claim, r_evidence, r_weights, r_pc, r_ranked>>

tvars == <<t_op, t_input, t_raises, t_output, t_called>>

pvars == <<p_pc, save_to_db, results, audio_path, transcript, claims_data, evidence_dict,
           verifications, clock, pipeline_start, p_calls, metrics, gemini_calls, db,
           p_failed>>

cvars == <<c_op, c_args, c_out>>

svars == <<s_pc, s_path, s_f, s_content, s_heard, s_response, s_tmp, s_files, s_loop>>

vars == <<wvars, bvars, rvars, tvars, pvars, cvars, svars>>

(***************************************************************************)
(* Bounds of the model                                                     *)
(***************************************************************************)
MaxWords == 3

MaxPhrases == 2

MaxEvidence == 3

MaxBatch == 3

MaxHits == 4

MaxClaims == 2

MaxItems == 3

MaxPairs == 2

\* latest clock value at which process_video is called
MaxStart == 1

\* largest top_k passed to get_top_evidence
MaxTopK == 3

\* longest result list passed to evaluate_with_confidence
MaxResults == 2

\* number of /transcribe requests
MaxRequests == 2

\* longest evidence list passed to get_top_evidence with its defaults
MaxRanked == 4

\* num_results: default of batch_retrieve_evidence and of the configuration
NumResults == 5

\* extract_full_text of the default configuration
ExtractFullText == FALSE

(***************************************************************************)
(* Generic helpers                                                         *)
(***************************************************************************)
Min2(a, b) == IF a <= b THEN a ELSE b

Max2(a, b) == IF a >= b THEN a ELSE b

\* the slice text[:n]: the first n items, all but the last -n when n < 0
Prefix(text, n) ==
    IF n >= 0 THEN SubSeq(text, 1, Min2(Len(text), n))
    ELSE SubSeq(text, 1, Max2(0, Len(text) + n))

Range(s) == {s[i] : i \in 1..Len(s)}

\* exact rationals
Rat(n, d) == [num |-> n, den |-> d]

RatEq(a, b) == a.num * b.den = b.num * a.den

RatLe(a, b) == a.num * b.den <= b.num * a.den

RatLt(a, b) == a.num * b.den < b.num * a.den

RatMin(a, b) == IF RatLe(a, b) THEN a ELSE b

\* sequences over S of length 0..n
SeqsUpTo(S, n) == UNION {[1..k -> S] : k \in 0..n}

(***************************************************************************)
(* Python floats (IEEE 754 binary64), non-negative and finite              *)
(* A float is [m |-> mantissa, e |-> exponent] with value mantissa * 2^e.  *)
(* The mantissa is a natural number written in base LimbBase, lowest limb  *)
(* first and no zero limb at the top (<<>> is 0); it has exactly 53 bits,  *)
(* or is 0 with exponent 0, so that equal floats are equal records.  Every *)
(* operation rounds its exact result to the nearest float, ties to even.   *)
(***************************************************************************)
LimbBase == 16384

\* x + y
BigAdd(x, y) ==
    LET limb(z, i) == IF i <= Len(z) THEN z[i] ELSE 0
        RECURSIVE from(_, _)
        from(i, carry) ==
            IF i > Max2(Len(x), Len(y))
            THEN (IF carry = 0 THEN <<>> ELSE <<carry>>)
            ELSE LET t == limb(x, i) + limb(y, i) + carry
                 IN  <<t % LimbBase>> \o from(i + 1, t \div LimbBase)
    IN  from(1, 0)

\* x * y for x and y of at most four limbs: column by column, a column
\* being the sum of the products of the limbs whose positions add up to it
BigMul(x, y) ==
    LET RECURSIVE column(_, _)
        column(i, k) ==
            IF i > Len(x) \/ i > k THEN 0
            ELSE (IF k + 1 - i <= Len(y) THEN x[i] * y[k + 1 - i] ELSE 0) + column(i + 1, k)
        RECURSIVE from(_, _)
        from(k, t) ==
            IF k > Len(x) + Len(y) THEN <<>>
            ELSE <<t % LimbBase>> \o from(k + 1, column(1, k + 1) + t \div LimbBase)
        trim(product) ==
            IF product[Len(product)] = 0 THEN SubSeq(product, 1, Len(product) - 1)
            ELSE product
    IN  IF x = <<>> \/ y = <<>> THEN <<>> ELSE trim(from(1, column(1, 1)))

\* x \div d and x % d for a natural d in 1..LimbBase
BigDivSmall(x, d) ==
    LET RECURSIVE from(_, _, _)
        from(i, rem, acc) ==
            IF i = 0 THEN [q |-> acc, r |-> rem]
            ELSE LET t == rem * LimbBase + x[i]
                     digit == t \div d
                 IN  from(i - 1, t % d,
                          IF acc = <<>> /\ digit = 0 THEN <<>>
                          ELSE <<digit>> \o acc)
    IN  from(Len(x), 0, <<>>)

\* x * 2^n
BigShl(x, n) ==
    LET RECURSIVE from(_, _)
        from(i, carry) ==
            IF i > Len(x)
            THEN (IF carry = 0 THEN <<>> ELSE <<carry>>)
            ELSE LET t == x[i] * 2^(n % 14) + carry
                 IN  <<t % LimbBase>> \o from(i + 1, t \div LimbBase)
        pad(part) == IF n < 14 THEN part ELSE [k \in 1..(n \div 14) |-> 0] \o part
    IN  IF x = <<>> THEN <<>>
        ELSE pad(IF n % 14 = 0 THEN x ELSE from(1, 0))

\* x \div 2^n
BigShr(x, n) ==
    IF n \div 14 >= Len(x) THEN <<>>
    ELSE IF n % 14 = 0 THEN SubSeq(x, n \div 14 + 1, Len(x))
    ELSE BigDivSmall(SubSeq(x, n \div 14 + 1, Len(x)), 2^(n % 14)).q

\* the float nearest to m * 2^e, ties to the even mantissa
FltRound(m, e) ==
    LET BitLen(x) ==
            14 * (Len(x) - 1)
                + (CHOOSE k \in 1..14 : 2^(k - 1) <= x[Len(x)] /\ x[Len(x)] < 2^k)
        \* a carry out of the top bit leaves 54 bits, the lowest of them 0
        carried(rounded, ex) ==
            IF BitLen(rounded) = 54
            THEN [m |-> BigShr(rounded, 1), e |-> ex + 1]
            ELSE [m |-> rounded, e |-> ex]
        \* kept: the 53 bits kept and the first bit dropped, s: the bits dropped.
        \* Up when the dropped part is more than half, or half and the
        \* mantissa odd
        up(kept, s) ==
            /\ kept[1] % 2 = 1
            /\ \/ BigShl(kept, s - 1) # m
               \/ (kept[1] \div 2) % 2 = 1
        nearest(q, kept, s) ==
            carried(IF up(kept, s) THEN BigAdd(q, <<1>>) ELSE q, e + s)
        dropping(kept, s) == nearest(BigShr(kept, 1), kept, s)
        sized(bits) ==
            IF bits <= 53 THEN [m |-> BigShl(m, 53 - bits), e |-> e - (53 - bits)]
            ELSE dropping(BigShr(m, bits - 54), bits - 53)
    IN  IF m = <<>> THEN [m |-> <<>>, e |-> 0] ELSE sized(BitLen(m))

\* the float n / d of two naturals below LimbBase, d > 0: the quotient of an
\* int division, and the float a decimal literal such as 0.95 denotes
Flt(n, d) ==
    LET \* twice the quotient of n * 2^70 by d, plus 1 when a remainder is left
        sticky(div) == BigAdd(BigShl(div.q, 1), IF div.r = 0 THEN <<>> ELSE <<1>>)
    IN  FltRound(sticky(BigDivSmall(BigShl(IF n = 0 THEN <<>> ELSE <<n>>, 70), d)), -71)

\* a * b
FltMul(a, b) == FltRound(BigMul(a.m, b.m), a.e + b.e)

\* a + b
FltAdd(a, b) ==
    IF a.m = <<>> THEN b
    ELSE IF b.m = <<>> THEN a
    ELSE FltRound(BigAdd(BigShl(a.m, a.e - Min2(a.e, b.e)),
                         BigShl(b.m, b.e - Min2(a.e, b.e))), Min2(a.e, b.e))

\* a < b: the mantissas at the lower exponent, compared from the top limb
FltLt(a, b) ==
    LET RECURSIVE below(_, _, _)
        below(x, y, i) ==
            IF i = 0 THEN FALSE
            ELSE IF x[i] # y[i] THEN x[i] < y[i]
            ELSE below(x, y, i - 1)
        less(x, y) == IF Len(x) # Len(y) THEN Len(x) < Len(y) ELSE below(x, y, Len(x))
    IN  IF b.m = <<>> THEN FALSE
        ELSE IF a.m = <<>> THEN TRUE
        ELSE less(BigShl(a.m, a.e - Min2(a.e, b.e)), BigShl(b.m, b.e - Min2(a.e, b.e)))

\* a <= b
FltLe(a, b) == ~FltLt(b, a)

\* 0.0 and 1.0
FltZero == Flt(0, 1)

FltOne == Flt(1, 1)

(***************************************************************************)
(* Text helpers: str.lower, regular-expression word characters and \b      *)
(* A text is a sequence of one-character strings over U+0001..U+00FF; on   *)
(* these characters str.lower, str.split and \w act as defined here.       *)
(***************************************************************************)
\* the characters str.lower() changes
UpperCase ==
    <<"A", "B", "C", "D", "E", "F", "G", "H", "I", "J", "K", "L", "M",
      "N", "O", "P", "Q", "R", "S", "T", "U", "V", "W", "X", "Y", "Z",
      "À", "Á", "Â", "Ã", "Ä", "Å", "Æ", "Ç", "È", "É", "Ê", "Ë", "Ì", "Í",
      "Î", "Ï", "Ð", "Ñ", "Ò", "Ó", "Ô", "Õ", "Ö", "Ø", "Ù", "Ú", "Û", "Ü",
      "Ý", "Þ" >>

\* what str.lower() changes them to, position by position
LowerCase ==
    <<"a", "b", "c", "d", "e", "f", "g", "h", "i", "j", "k", "l", "m",
      "n", "o", "p", "q", "r", "s", "t", "u", "v", "w", "x", "y", "z",
      "à", "á", "â", "ã", "ä", "å", "æ", "ç", "è", "é", "ê", "ë", "ì", "í",
      "î", "ï", "ð", "ñ", "ò", "ó", "ô", "õ", "ö", "ø", "ù", "ú", "û", "ü",
      "ý", "þ" >>

\* the characters matched by \d
Digits == {"0", "1", "2", "3", "4", "5", "6", "7", "8", "9"}

\* the characters matched by \w: letters, numeric characters and "_"
WordChars ==
    Range(UpperCase) \cup Range(LowerCase) \cup Digits \cup {"_"}
        \cup {"ª", "²", "³", "µ", "¹", "º", "¼", "½", "¾", "ß", "ÿ"}

IsWordChar(c) == c \in WordChars

LowerOf ==
    [c \in Range(UpperCase) |->
        LowerCase[CHOOSE k \in DOMAIN UpperCase : UpperCase[k] = c]]

LowerChar(c) == IF c \in DOMAIN LowerOf THEN LowerOf[c] ELSE c

\* str.lower()
lower(s) == [i \in 1..Len(s) |-> LowerChar(s[i])]

\* is position i (1-based) of s a word character; positions outside s are not
WordAt(s, i) == i >= 1 /\ i <= Len(s) /\ IsWordChar(s[i])

\* \b holds between s[i-1] and s[i]
BoundaryBefore(s, i) == WordAt(s, i - 1) # WordAt(s, i)

\* does s carry pat at position i
HasAt(s, pat, i) ==
    /\ i + Len(pat) - 1 <= Len(s)
    /\ \A k \in 1..Len(pat) : s[i + k - 1] = pat[k]

\* " ".join(parts)
RECURSIVE JoinSpace(_)
JoinSpace(parts) ==
    IF parts = <<>> THEN <<>>
    ELSE IF Len(parts) = 1 THEN Head(parts)
    ELSE Head(parts) \o <<" ">> \o JoinSpace(Tail(parts))

RECURSIVE SumOver(_, _)
SumOver(S, f) ==
    IF S = {} THEN 0
    ELSE LET x == CHOOSE y \in S : TRUE IN f[x] + SumOver(S \ {x}, f)

(***************************************************************************)
(* BaselineModel                                                           *)
(***************************************************************************)
\* BaselineModel.TRUE_KEYWORDS
TRUE_KEYWORDS ==
    { <<"c", "o", "n", "f", "i", "r", "m", "e", "d">>,
      <<"v", "e", "r", "i", "f", "i", "e", "d">>,
      <<"p", "r", "o", "v", "e", "n">>,
      <<"e", "s", "t", "a", "b", "l", "i", "s", "h", "e", "d">>,
      <<"d", "o", "c", "u", "m", "e", "n", "t", "e", "d">>,
      <<"o", "f", "f", "i", "c", "i", "a", "l">>,
      <<"a", "c", "c", "o", "r", "d", "i", "n", "g", " ", "t", "o">>,
      <<"r", "e", "s", "e", "a", "r", "c", "h", " ", "s", "h", "o", "w", "s">>,
      <<"s", "t", "u", "d", "i", "e", "s", " ", "i", "n", "d", "i", "c", "a", "t", "e">>,
      <<"e", "v", "i", "d", "e", "n", "c", "e", " ", "s", "u", "g", "g", "e", "s", "t", "s">>,
      <<"d", "a", "t", "a", " ", "s", "h", "o", "w", "s">>,
      <<"s", "t", "a", "t", "i", "s", "t", "i", "c", "s", " ", "s", "h", "o", "w">> }

\* BaselineModel.FALSE_KEYWORDS
FALSE_KEYWORDS ==
    { <<"d", "e", "b", "u", "n", "k", "e", "d">>,
      <<"f", "a", "l", "s", "e">>,
      <<"h", "o", "a", "x">>,
      <<"f", "a", "k", "e">>,
      <<"m", "i", "s", "l", "e", "a", "d", "i", "n", "g">>,
      <<"i", "n", "c", "o", "r", "r", "e", "c", "t">>,
      <<"d", "i", "s", "p", "r", "o", "v", "e", "n">>,
      <<"c", "o", "n", "t", "r", "a", "d", "i", "c", "t", "s">>,
      <<"d", "e", "n", "i", "e", "s">>,
      <<"r", "e", "f", "u", "t", "e", "s">>,
      <<"d", "i", "s", "p", "u", "t", "e", "d">> }

\* BaselineModel.UNCERTAIN_KEYWORDS
UNCERTAIN_KEYWORDS ==
    { <<"m", "a", "y">>,
      <<"m", "i", "g", "h", "t">>,
      <<"c", "o", "u", "l", "d">>,
      <<"p", "o", "s", "s", "i", "b", "l", "y">>,
      <<"a", "l", "l", "e", "g", "e", "d", "l", "y">>,
      <<"r", "e", "p", "o", "r", "t", "e", "d", "l", "y">>,
      <<"u", "n", "c", "l", "e", "a", "r">>,
      <<"u", "n", "c", "e", "r", "t", "a", "i", "n">>,
      <<"u", "n", "k", "n", "o", "w", "n">>,
      <<"u", "n", "v", "e", "r", "i", "f", "i", "e", "d">>,
      <<"u", "n", "c", "o", "n", "f", "i", "r", "m", "e", "d">> }

\* variant of KeywordAt: the keyword is matched without the \b anchors
KeywordAtNoBoundary(text, keyword, i) == HasAt(text, keyword, i)

\* re match of \b<keyword>\b at position i of text
KeywordAt(text, keyword, i) ==
    /\ HasAt(text, keyword, i)
    /\ BoundaryBefore(text, i)
    /\ BoundaryBefore(text, i + Len(keyword))

\* len(re.findall(rf'\b{keyword}\b', text)): leftmost non-overlapping matches;
\* after an empty match the search resumes one character further
RECURSIVE FindAllCount(_, _, _)
FindAllCount(text, keyword, i) ==
    IF i + Len(keyword) - 1 > Len(text) THEN 0
    ELSE IF KeywordAt(text, keyword, i)
         THEN 1 + FindAllCount(text, keyword, i + Max2(Len(keyword), 1))
         ELSE FindAllCount(text, keyword, i + 1)

count_keyword_matches(text, keywords) ==
    LET text_lower == lower(text)
    IN  SumOver(keywords, [kw \in keywords |-> FindAllCount(text_lower, kw, 1)])

\* variant of Confidence: the winning count as a share of all counts
ConfidenceShare(winning, other1, other2) ==
    RatMin(Rat(winning, winning + other1 + other2 + 1), Rat(1, 1))

\* variant of Confidence: the quotient is not capped at 1.0
ConfidenceUncapped(winning, other1, other2) ==
    Rat(winning, Max2(other1 + other2 + 1, 1))

\* min(winning / max(other1 + other2 + 1, 1), 1.0)
Confidence(winning, other1, other2) ==
    RatMin(Rat(winning, Max2(other1 + other2 + 1, 1)), Rat(1, 1))

verify_claim(claim, evidence) ==
    LET combined_text == lower(claim \o <<" ">> \o evidence)
        true_count == count_keyword_matches(combined_text, TRUE_KEYWORDS)
        false_count == count_keyword_matches(combined_text, FALSE_KEYWORDS)
        uncertain_count == count_keyword_matches(combined_text, UNCERTAIN_KEYWORDS)
    IN  IF false_count > true_count /\ false_count > uncertain_count
        THEN [claim |-> claim, label |-> "false",
              confidence |-> Confidence(false_count, true_count, uncertain_count),
              reasoning |-> <<"false-indicating", false_count, true_count>>]
        ELSE IF true_count > false_count /\ true_count > uncertain_count
        THEN [claim |-> claim, label |-> "true",
              confidence |-> Confidence(true_count, false_count, uncertain_count),
              reasoning |-> <<"true-indicating", true_count, false_count>>]
        ELSE [claim |-> claim, label |-> "uncertain",
              confidence |-> Rat(1, 2),
              reasoning |-> <<"inconclusive", true_count, false_count, uncertain_count>>]

\* ---- inputs of the baseline specification ----
\* "X is a debunked hoax"
ScenarioHoax ==
    <<"X", " ", "i", "s", " ", "a", " ", "d", "e", "b", "u", "n", "k", "e", "d", " ", "h", "o", "a", "x">>

\* "officials say it was confirmed"
ScenarioOfficials ==
    <<"o", "f", "f", "i", "c", "i", "a", "l", "s", " ", "s", "a", "y", " ", "i", "t", " ", "w", "a", "s", " ", "c", "o", "n", "f", "i", "r", "m", "e", "d">>

\* "X was confirmed by officials"
ScenarioConfirmed ==
    <<"X", " ", "w", "a", "s", " ", "c", "o", "n", "f", "i", "r", "m", "e", "d", " ", "b", "y", " ", "o", "f", "f", "i", "c", "i", "a", "l", "s">>

\* phrases a claim text is put together from
ClaimPhrases ==
    { <<"X", " ", "w", "a", "s", " ", "c", "o", "n", "f", "i", "r", "m", "e", "d", " ", "b", "y", " ", "o", "f", "f", "i", "c", "i", "a", "l", "s">>,
      <<"X", " ", "i", "s", " ", "a", " ", "d", "e", "b", "u", "n", "k", "e", "d", " ", "h", "o", "a", "x">>,
      <<"I", "t", " ", "m", "a", "y", " ", "b", "e", " ", "O", "f", "f", "i", "c", "i", "a", "l">>,
      <<"a", "c", "c", "o", "r", "d", "i", "n", "g", " ", "t", "o", " ", "d", "a", "t", "a">>,
      <<"u", "n", "c", "o", "n", "f", "i", "r", "m", "e", "d">>,
      <<"f", "a", "k", "e", ",", " ", "F", "A", "L", "S", "E", "!">> }

\* evidence texts
EvidenceTexts ==
    { <<>>,
      <<"o", "f", "f", "i", "c", "i", "a", "l", "s", " ", "s", "a", "y", " ", "i", "t", " ", "w", "a", "s", " ", "c", "o", "n", "f", "i", "r", "m", "e", "d">>,
      <<"m", "i", "g", "h", "t", " ", "p", "o", "s", "s", "i", "b", "l", "y">>,
      <<"r", "e", "f", "u", "t", "e", "s">>,
      <<"é", "f", "a", "k", "e", " ", "D", "É", "B", "U", "N", "K", "E", "D">> }

ClaimTextsBaseline == {JoinSpace(ps) : ps \in SeqsUpTo(ClaimPhrases, MaxPhrases)}

NoVerification == [claim |-> <<>>, label |-> "none", confidence |-> Rat(0, 1), reasoning |-> <<>>]

BaselineIdle ==
    /\ b_claim = <<>>
    /\ b_evidence = <<>>
    /\ b_pc = "idle"
    /\ b_result = NoVerification

\* a caller picks the claim and the evidence
BaselineInput ==
    /\ b_pc = "idle"
    /\ \E c \in ClaimTextsBaseline, e \in EvidenceTexts :
          /\ b_claim' = c
          /\ b_evidence' = e
    /\ b_pc' = "input"
    /\ UNCHANGED <<b_result, wvars, rvars, tvars, pvars, cvars, svars>>

\* BaselineModel.verify_claim(claim, evidence)
VerifyClaimBaseline ==
    /\ b_pc = "input"
    /\ b_result' = verify_claim(b_claim, b_evidence)
    /\ b_pc' = "done"
    /\ UNCHANGED <<b_claim, b_evidence, wvars, rvars, tvars, pvars, cvars, svars>>

(***************************************************************************)
(* EvidenceReranker                                                        *)
(***************************************************************************)
RECURSIVE GCD(_, _)
GCD(a, b) == IF b = 0 THEN a ELSE GCD(b, a % b)

\* the same fraction in lowest terms
RatNorm(a) ==
    LET g == GCD(a.num, a.den)
    IN  IF a.num = 0 THEN Rat(0, 1) ELSE Rat(a.num \div g, a.den \div g)

RatAdd(a, b) == RatNorm(Rat(a.num * b.den + b.num * a.den, a.den * b.den))

RatMul(a, b) == RatNorm(Rat(a.num * b.num, a.den * b.den))

\* EvidenceReranker.DOMAIN_AUTHORITY, in the order of the dict
DOMAIN_AUTHORITY ==
    << [domain |-> <<"w", "i", "k", "i", "p", "e", "d", "i", "a", ".", "o", "r", "g">>,
        score |-> Flt(95, 100)],
       [domain |-> <<"g", "o", "v", ".", "u", "k">>,
        score |-> Flt(95, 100)],
       [domain |-> <<"c", "e", "n", "s", "u", "s", ".", "g", "o", "v">>,
        score |-> Flt(95, 100)],
       [domain |-> <<"b", "b", "c", ".", "c", "o", "m">>,
        score |-> Flt(90, 100)],
       [domain |-> <<"r", "e", "u", "t", "e", "r", "s", ".", "c", "o", "m">>,
        score |-> Flt(90, 100)],
       [domain |-> <<"a", "p", "n", "e", "w", "s", ".", "c", "o", "m">>,
        score |-> Flt(90, 100)],
       [domain |-> <<"n", "y", "t", "i", "m", "e", "s", ".", "c", "o", "m">>,
        score |-> Flt(90, 100)],
       [domain |-> <<"t", "h", "e", "g", "u", "a", "r", "d", "i", "a", "n", ".", "c", "o", "m">>,
        score |-> Flt(85, 100)],
       [domain |-> <<"c", "n", "n", ".", "c", "o", "m">>,
        score |-> Flt(80, 100)],
       [domain |-> <<"b", "b", "c", ".", "c", "o", ".", "u", "k">>,
        score |-> Flt(90, 100)] >>

\* s.replace(pat, ""): every non-overlapping occurrence, left to right
RECURSIVE RemoveAll(_, _, _)
RemoveAll(s, pat, i) ==
    IF i > Len(s) THEN <<>>
    ELSE IF HasAt(s, pat, i) THEN RemoveAll(s, pat, i + Len(pat))
    ELSE <<s[i]>> \o RemoveAll(s, pat, i + 1)

\* s.split(c)[0]: the part before the first c
RECURSIVE BeforeFirst(_, _, _)
BeforeFirst(s, c, i) ==
    IF i > Len(s) \/ s[i] = c THEN SubSeq(s, 1, i - 1)
    ELSE BeforeFirst(s, c, i + 1)

\* pat in s
Contains(s, pat) == \E i \in 1..(Len(s) - Len(pat) + 1) : HasAt(s, pat, i)

extract_domain(url) ==
    LET no_scheme == RemoveAll(RemoveAll(url, <<"h", "t", "t", "p", "s", ":", "/", "/">>, 1),
                               <<"h", "t", "t", "p", ":", "/", "/">>, 1)
        domain == BeforeFirst(no_scheme, "/", 1)
    IN  RemoveAll(domain, <<"w", "w", "w", ".">>, 1)

\* score * 0.9 for a partial match, 0.5 for an unknown domain
PartialMatchFactor == Flt(9, 10)

UnknownDomainScore == Flt(1, 2)

get_domain_authority_score(url) ==
    LET first(S) == CHOOSE k \in S : \A j \in S : k <= j
        \* the keys equal to the domain, and the keys contained in it
        exact(table, domain) == {k \in 1..Len(table) : table[k].domain = domain}
        partial(table, domain) ==
            {k \in 1..Len(table) : Contains(domain, table[k].domain)}
        lookup(table, domain) ==
            IF exact(table, domain) # {} THEN table[first(exact(table, domain))].score
            ELSE IF partial(table, domain) # {}
            THEN FltMul(table[first(partial(table, domain))].score, PartialMatchFactor)
            ELSE UnknownDomainScore
    IN  lookup(DOMAIN_AUTHORITY, extract_domain(url))

\* re.findall(r'\b\w+\b', s): the maximal runs of word characters
RECURSIVE WordRuns(_, _, _, _)
WordRuns(s, i, cur, acc) ==
    IF i > Len(s)
    THEN (IF cur = <<>> THEN acc ELSE Append(acc, cur))
    ELSE IF ~IsWordChar(s[i])
         THEN WordRuns(s, i + 1, <<>>, IF cur = <<>> THEN acc ELSE Append(acc, cur))
         ELSE WordRuns(s, i + 1, Append(cur, s[i]), acc)

stop_words ==
    { <<"t", "h", "e">>,
      <<"a", "n", "d">>,
      <<"o", "r">>,
      <<"i", "s">>,
      <<"a", "r", "e">>,
      <<"w", "a", "s">>,
      <<"w", "e", "r", "e">>,
      <<"b", "e">>,
      <<"b", "e", "e", "n">>,
      <<"b", "e", "i", "n", "g">> }

\* set(w.lower() for w in findall(...) if len(w) > 3 and w.lower() not in stop_words)
Keywords(text) ==
    {lower(w) : w \in {v \in Range(WordRuns(text, 1, <<>>, <<>>)) :
                            Len(v) > 3 /\ lower(v) \notin stop_words}}

calculate_keyword_overlap(claim, text) ==
    LET \* min(a, b): b when b < a, else a
        min(a, b) == IF FltLt(b, a) THEN b ELSE a
        ratio(claim_words, text_words) ==
            IF claim_words = {} THEN FltZero
            ELSE min(Flt(Cardinality(claim_words \cap text_words),
                         Cardinality(claim_words)), FltOne)
    IN  ratio(Keywords(claim), Keywords(text))

\* match of \b(202[0-4])\b at position i
RecentYearAt(s, i) ==
    /\ i + 3 <= Len(s)
    /\ s[i] = "2" /\ s[i + 1] = "0" /\ s[i + 2] = "2"
    /\ s[i + 3] \in {"0", "1", "2", "3", "4"}
    /\ BoundaryBefore(s, i) /\ BoundaryBefore(s, i + 4)

\* match of \b(19\d{2}|20\d{2})\b at position i
AnyYearAt(s, i) ==
    /\ i + 3 <= Len(s)
    /\ \/ s[i] = "1" /\ s[i + 1] = "9"
       \/ s[i] = "2" /\ s[i + 1] = "0"
    /\ s[i + 2] \in Digits /\ s[i + 3] \in Digits
    /\ BoundaryBefore(s, i) /\ BoundaryBefore(s, i + 4)

\* 0.9 for a year 2020-2024, 0.6 for another year, 0.5 without a year
RecentYearScore == Flt(9, 10)

AnyYearScore == Flt(6, 10)

NoYearScore == Flt(1, 2)

calculate_recency_score(snippet) ==
    IF \E i \in 1..Len(snippet) : RecentYearAt(snippet, i) THEN RecentYearScore
    ELSE IF \E i \in 1..Len(snippet) : AnyYearAt(snippet, i) THEN AnyYearScore
    ELSE NoYearScore

\* weights = None
NoWeights == [none |-> TRUE]

\* variant of DefaultWeights: twice the weights
DefaultWeightsDoubled ==
    [domain_authority |-> Flt(8, 10), keyword_overlap |-> Flt(8, 10), recency |-> Flt(4, 10)]

\* the weights used when the caller passes none
DefaultWeights ==
    [domain_authority |-> Flt(4, 10), keyword_overlap |-> Flt(4, 10), recency |-> Flt(2, 10)]

\* the loop body of rerank_evidence: one RankedEvidence per item, rank = i + 1
ScoreItem(claim, evidence, weights, i) ==
    LET total_score(domain_score, keyword_score, recency_score) ==
            FltAdd(FltAdd(FltMul(domain_score, weights.domain_authority),
                          FltMul(keyword_score, weights.keyword_overlap)),
                   FltMul(recency_score, weights.recency))
    IN  [title |-> evidence.title, url |-> evidence.url, snippet |-> evidence.snippet,
         rank |-> i,
         relevance_score |-> total_score(get_domain_authority_score(evidence.url),
                                         calculate_keyword_overlap(claim, evidence.snippet),
                                         calculate_recency_score(evidence.snippet))]

\* variant of InsertDesc: an item is placed before the items of equal score
RECURSIVE InsertDescBeforeEqual(_, _)
InsertDescBeforeEqual(sorted, x) ==
    IF sorted = <<>> THEN <<x>>
    ELSE IF FltLe(Head(sorted).relevance_score, x.relevance_score)
         THEN <<x>> \o sorted
         ELSE <<Head(sorted)>> \o InsertDescBeforeEqual(Tail(sorted), x)

\* place x behind every item whose score is not smaller
RECURSIVE InsertDesc(_, _)
InsertDesc(sorted, x) ==
    IF sorted = <<>> THEN <<x>>
    ELSE IF FltLt(Head(sorted).relevance_score, x.relevance_score)
         THEN <<x>> \o sorted
         ELSE <<Head(sorted)>> \o InsertDesc(Tail(sorted), x)

\* ranked.sort(key=relevance_score, reverse=True): stable, descending
RECURSIVE SortDesc(_, _)
SortDesc(sorted, rest) ==
    IF rest = <<>> THEN sorted
    ELSE SortDesc(InsertDesc(sorted, Head(rest)), Tail(rest))

\* for i, item in enumerate(ranked): item.rank = i + 1
UpdateRanks(ranked) == [i \in 1..Len(ranked) |-> [ranked[i] EXCEPT !.rank = i]]

rerank_evidence(claim, evidence_list, weights) ==
    LET ranked(w) == [i \in 1..Len(evidence_list) |-> ScoreItem(claim, evidence_list[i], w, i)]
    IN  UpdateRanks(SortDesc(<<>>, ranked(IF weights = NoWeights THEN DefaultWeights
                                          ELSE weights)))

\* ---- inputs of the reranker specification ----
\* https://www.wikipedia.org/Climate : "Climate change report 2021"
EvidenceA ==
    [title |-> <<"A">>,
     url |-> <<"h", "t", "t", "p", "s", ":", "/", "/", "w", "w", "w", ".", "w", "i", "k", "i", "p", "e", "d", "i", "a", ".", "o", "r", "g", "/", "C", "l", "i", "m", "a", "t", "e">>,
     snippet |-> <<"C", "l", "i", "m", "a", "t", "e", " ", "c", "h", "a", "n", "g", "e", " ", "r", "e", "p", "o", "r", "t", " ", "2", "0", "2", "1">>]

\* https://news.example.com : "climate"
EvidenceB ==
    [title |-> <<"B">>,
     url |-> <<"h", "t", "t", "p", "s", ":", "/", "/", "n", "e", "w", "s", ".", "e", "x", "a", "m", "p", "l", "e", ".", "c", "o", "m">>,
     snippet |-> <<"c", "l", "i", "m", "a", "t", "e">>]

\* https://news.example.com : "climate"
EvidenceC ==
    [title |-> <<"C">>,
     url |-> <<"h", "t", "t", "p", "s", ":", "/", "/", "n", "e", "w", "s", ".", "e", "x", "a", "m", "p", "l", "e", ".", "c", "o", "m">>,
     snippet |-> <<"c", "l", "i", "m", "a", "t", "e">>]

\* http://en.wikipedia.org/wiki : "In 1999 the change"
EvidenceD ==
    [title |-> <<"D">>,
     url |-> <<"h", "t", "t", "p", ":", "/", "/", "e", "n", ".", "w", "i", "k", "i", "p", "e", "d", "i", "a", ".", "o", "r", "g", "/", "w", "i", "k", "i">>,
     snippet |-> <<"I", "n", " ", "1", "9", "9", "9", " ", "t", "h", "e", " ", "c", "h", "a", "n", "g", "e">>]

\* https://www.bbc.co.uk/news : "Global climate change"
EvidenceE ==
    [title |-> <<"E">>,
     url |-> <<"h", "t", "t", "p", "s", ":", "/", "/", "w", "w", "w", ".", "b", "b", "c", ".", "c", "o", ".", "u", "k", "/", "n", "e", "w", "s">>,
     snippet |-> <<"G", "l", "o", "b", "a", "l", " ", "c", "l", "i", "m", "a", "t", "e", " ", "c", "h", "a", "n", "g", "e">>]

EvidencePool == {EvidenceA, EvidenceB, EvidenceC, EvidenceD, EvidenceE}

\* https://wikipedia.org : "In 1999"
EvidenceF ==
    [title |-> <<"F">>,
     url |-> <<"h", "t", "t", "p", "s", ":", "/", "/", "w", "i", "k", "i", "p", "e", "d", "i", "a", ".", "o", "r", "g">>,
     snippet |-> <<"I", "n", " ", "1", "9", "9", "9">>]

\* https://cnn.com : "2021"
EvidenceG ==
    [title |-> <<"G">>,
     url |-> <<"h", "t", "t", "p", "s", ":", "/", "/", "c", "n", "n", ".", "c", "o", "m">>,
     snippet |-> <<"2", "0", "2", "1">>]

\* with them two items whose weighted sums differ in the last bit only:
\* 0.95 * 0.4 + 0.6 * 0.2 = 0.5 and 0.8 * 0.4 + 0.9 * 0.2 = 0.5000000000000001
RerankPool == EvidencePool \cup {EvidenceF, EvidenceG}

\* "Climate change is real"
ClaimClimate ==
    <<"C", "l", "i", "m", "a", "t", "e", " ", "c", "h", "a", "n", "g", "e", " ", "i", "s", " ", "r", "e", "a", "l">>

\* "The sea is big"
ClaimSea ==
    <<"T", "h", "e", " ", "s", "e", "a", " ", "i", "s", " ", "b", "i", "g">>

RerankClaims == {ClaimClimate, ClaimSea}

\* weights a caller may pass instead of the defaults
CallerWeights ==
    {[domain_authority |-> FltOne, keyword_overlap |-> FltOne, recency |-> FltOne],
     [domain_authority |-> Flt(1, 2), keyword_overlap |-> Flt(1, 4), recency |-> Flt(1, 4)]}

RerankIdle ==
    /\ r_claim = <<>>
    /\ r_evidence = <<>>
    /\ r_weights = NoWeights
    /\ r_pc = "idle"
    /\ r_ranked = <<>>

\* a caller picks the claim, the evidence list and the weights
RerankInput ==
    /\ r_pc = "idle"
    /\ \E c \in RerankClaims, ev \in SeqsUpTo(RerankPool, MaxEvidence),
          w \in {NoWeights} \cup CallerWeights :
          /\ r_claim' = c
          /\ r_evidence' = ev
          /\ r_weights' = w
    /\ r_pc' = "input"
    /\ UNCHANGED <<r_ranked, wvars, bvars, tvars, pvars, cvars, svars>>

\* EvidenceReranker.rerank_evidence(claim, evidence_list, weights)
RerankEvidence ==
    /\ r_pc = "input"
    /\ r_ranked' = rerank_evidence(r_claim, r_evidence, r_weights)
    /\ r_pc' = "done"
    /\ UNCHANGED <<r_claim, r_evidence, r_weights, wvars, bvars, tvars, pvars, cvars, svars>>

(***************************************************************************)
(* EvidenceRetriever                                                       *)
(***************************************************************************)
\* the i-th entry of data["items"] in the answer of the search API
ApiItem(i) == [title |-> <<"title", i>>, link |-> <<"url", i>>, snippet |-> <<"snippet", i>>]

\* an answer with n items, and a failed request
ApiAnswer(n) == [status |-> "ok", items |-> [i \in 1..n |-> ApiItem(i)]]

ApiError == [status |-> "error"]

\* what extract_text_from_url returns for a url: "" when the page cannot be
\* fetched (here: the second hit), else its text
PageText(url) == IF url = <<"url", 2>> THEN <<>> ELSE <<"page", url[2]>>

\* variant of search: the position is taken as it comes from enumerate
search_rank_from_zero(answer, num_results) ==
    IF answer.status = "error" THEN <<>>
    ELSE LET items == Prefix(answer.items, num_results)
         IN  [i \in 1..Len(items) |->
            [title |-> items[i].title,
             url |-> items[i].link,
             snippet |-> items[i].snippet,
             rank |-> i - 1,
             relevance_score |-> Rat(1, i)]]

\* EvidenceRetriever.search: [] on a request error, else the items of the
\* slice [:num_results] with rank i and relevance 1/i
search(answer, num_results) ==
    IF answer.status = "error" THEN <<>>
    ELSE LET items == Prefix(answer.items, num_results)
         IN  [i \in 1..Len(items) |->
            [title |-> items[i].title,
             url |-> items[i].link,
             snippet |-> items[i].snippet,
             rank |-> i,
             relevance_score |-> Rat(1, i)]]

EmptyBundle(claim) ==
    [claim |-> claim, search_results |-> <<>>, evidence_text |-> <<>>, sources |-> <<>>]

ErrorBundle(claim, e) ==
    [claim |-> claim, search_results |-> <<>>, evidence_text |-> <<>>, sources |-> <<>>,
     error |-> e]

\* the "Source: <title>\n<text>" entries of the top results; with
\* extract_full_text a result whose page text is empty contributes none
RECURSIVE EvidenceTexts3(_, _)
EvidenceTexts3(top, extract_full_text) ==
    IF top = <<>> THEN <<>>
    ELSE LET result == Head(top)
             entry == IF extract_full_text
                      THEN (IF PageText(result.url) # <<>>
                            THEN <<[source |-> result.title, text |-> PageText(result.url)]>>
                            ELSE <<>>)
                      ELSE <<[source |-> result.title, text |-> result.snippet]>>
         IN  entry \o EvidenceTexts3(Tail(top), extract_full_text)

\* EvidenceRetriever.retrieve_evidence; evidence_text is the list of entries
\* that "\n\n".join puts together ("" when there is none)
retrieve_evidence(claim, answer, num_results, extract_full_text) ==
    LET search_results == search(answer, num_results)
        top == SubSeq(search_results, 1, Min2(3, Len(search_results)))
        sources == [i \in 1..Len(top) |->
                       [title |-> top[i].title, url |-> top[i].url,
                        snippet |-> top[i].snippet, rank |-> top[i].rank]]
    IN  IF search_results = <<>> THEN EmptyBundle(claim)
        ELSE [claim |-> claim,
              search_results |-> search_results,
              evidence_text |-> EvidenceTexts3(top, extract_full_text),
              sources |-> sources,
              num_sources |-> Len(sources)]

\* the outcome of the call made for one item: a value, or an exception
Returned(v) == [raised |-> FALSE, value |-> v]

Raised == [raised |-> TRUE, exception |-> "Exception"]

\* variant of RetrieveStep: a failed item is logged and left out
RetrieveStepOmit(batch_results, claim, evidence) ==
    IF evidence.raised THEN batch_results ELSE Append(batch_results, evidence.value)

\* one iteration of batch_retrieve_evidence: try ... except around the item
RetrieveStep(batch_results, claim, evidence) ==
    IF evidence.raised
    THEN Append(batch_results, ErrorBundle(claim, evidence.exception))
    ELSE Append(batch_results, evidence.value)

\* env[i] is what happens in the call for claims[i]: the answer of the search
\* API, or an exception.  Returns the results and the items that were called.
RECURSIVE batch_retrieve_loop(_, _, _, _, _, _)
batch_retrieve_loop(claims, env, num_results, extract_full_text, i, acc) ==
    IF i > Len(claims) THEN acc
    ELSE LET evidence == IF env[i].raises THEN Raised
                         ELSE Returned(retrieve_evidence(claims[i], env[i].answer,
                                                         num_results, extract_full_text))
         IN  batch_retrieve_loop(claims, env, num_results, extract_full_text, i + 1,
                [results |-> RetrieveStep(acc.results, claims[i], evidence),
                 called |-> Append(acc.called, i)])

batch_retrieve_evidence(claims, env, num_results, extract_full_text) ==
    batch_retrieve_loop(claims, env, num_results, extract_full_text, 1,
                        [results |-> <<>>, called |-> <<>>])

(***************************************************************************)
(* EvidenceReranker.batch_rerank_evidence                                  *)
(***************************************************************************)
\* results[key] = value on a dict
Put(dict, key, value) ==
    [k \in (DOMAIN dict) \cup {key} |-> IF k = key THEN value ELSE dict[k]]

EmptyDict == [k \in {} |-> <<>>]

\* one iteration of batch_rerank_evidence
RerankStep(batch_results, claim, reranked) ==
    IF reranked.raised THEN Put(batch_results, claim, <<>>)
    ELSE Put(batch_results, claim, reranked.value)

\* claims_evidence[i] = <<claim, evidence_list>>; raises[i]: rerank_evidence
\* fails on the i-th pair
RECURSIVE batch_rerank_loop(_, _, _, _, _)
batch_rerank_loop(claims_evidence, raises, weights, i, acc) ==
    IF i > Len(claims_evidence) THEN acc
    ELSE LET claim == claims_evidence[i][1]
             evidence_list == claims_evidence[i][2]
         IN  batch_rerank_loop(claims_evidence, raises, weights, i + 1,
                [results |->
                     RerankStep(acc.results, claim,
                                IF raises[i] THEN Raised
                                ELSE Returned(rerank_evidence(claim, evidence_list,
                                                              weights))),
                 called |-> Append(acc.called, i)])

batch_rerank_evidence(claims_evidence, raises, weights) ==
    batch_rerank_loop(claims_evidence, raises, weights, 1,
                      [results |-> EmptyDict, called |-> <<>>])

(***************************************************************************)
(* BaselineModel.batch_verify_claims                                       *)
(***************************************************************************)
\* the optional argument evidence_list: None, or a list
NoEvidenceList == [given |-> FALSE]

EvidenceList(l) == [given |-> TRUE, list |-> l]

\* zip(claims, evidence_list): as long as the shorter of the two
Zip(claims, evidence_list) ==
    [i \in 1..Min2(Len(claims), Len(evidence_list)) |-> <<claims[i], evidence_list[i]>>]

\* one iteration of batch_verify_claims
VerifyStep(batch_results, claim, result) ==
    IF result.raised
    THEN Append(batch_results, [claim |-> claim, label |-> "uncertain",
                          confidence |-> Rat(0, 1),
                          reasoning |-> <<"Error", result.exception>>])
    ELSE Append(batch_results, result.value)

RECURSIVE batch_verify_loop(_, _, _, _)
batch_verify_loop(pairs, raises, i, acc) ==
    IF i > Len(pairs) THEN acc
    ELSE LET result == IF raises[i] THEN Raised
                       ELSE Returned(verify_claim(pairs[i][1], pairs[i][2]))
         IN  batch_verify_loop(pairs, raises, i + 1,
                [results |-> VerifyStep(acc.results, pairs[i][1], result),
                 called |-> Append(acc.called, i)])

batch_verify_claims(claims, evidence_list, raises) ==
    LET evidence == IF ~evidence_list.given
                    THEN [i \in 1..Len(claims) |-> <<>>]
                    ELSE evidence_list.list
    IN  batch_verify_loop(Zip(claims, evidence), raises, 1,
                          [results |-> <<>>, called |-> <<>>])

\* ---- inputs of the batch specification ----
BatchClaims == {ClaimClimate, ClaimSea}

BatchEnv ==
    {[raises |-> FALSE, answer |-> ApiAnswer(n)] : n \in {0, MaxHits}}
    \cup {[raises |-> FALSE, answer |-> ApiError], [raises |-> TRUE, answer |-> ApiError]}

BatchEvidenceLists == {<<>>, <<EvidenceB, EvidenceA>>}

BatchVerifyClaims == {ScenarioHoax, ScenarioConfirmed}

BatchVerifyEvidence == {ScenarioOfficials}

BatchIdle ==
    /\ t_op = "none"
    /\ t_input = <<>>
    /\ t_raises = <<>>
    /\ t_output = <<>>
    /\ t_called = <<>>

\* EvidenceRetriever.batch_retrieve_evidence(claims, num_results, extract_full_text)
BatchRetrieveEvidence ==
    /\ t_op = "none"
    /\ \E n \in 0..MaxBatch :
      \E claims \in [1..n -> BatchClaims], env \in [1..n -> BatchEnv], full \in BOOLEAN :
        LET out == batch_retrieve_evidence(claims, env, NumResults, full)
        IN  /\ t_op' = "batch_retrieve_evidence"
            /\ t_input' = [claims |-> claims, answers |-> [i \in 1..n |-> env[i].answer],
                           extract_full_text |-> full]
            /\ t_raises' = [i \in 1..n |-> env[i].raises]
            /\ t_output' = out.results
            /\ t_called' = out.called
            /\ UNCHANGED <<wvars, bvars, rvars, pvars, cvars, svars>>

\* EvidenceReranker.batch_rerank_evidence(claims_evidence)
BatchRerankEvidence ==
    /\ t_op = "none"
    /\ \E n \in 0..MaxBatch :
      \E pairs \in [1..n -> BatchClaims \X BatchEvidenceLists], raises \in [1..n -> BOOLEAN] :
        LET out == batch_rerank_evidence(pairs, raises, NoWeights)
        IN  /\ t_op' = "batch_rerank_evidence"
            /\ t_input' = [claims_evidence |-> pairs]
            /\ t_raises' = raises
            /\ t_output' = out.results
            /\ t_called' = out.called
            /\ UNCHANGED <<wvars, bvars, rvars, pvars, cvars, svars>>

\* BaselineModel.batch_verify_claims(claims, evidence_list)
BaselineBatchVerifyClaims ==
    /\ t_op = "none"
    /\ \E n \in 0..MaxBatch, m \in 0..MaxBatch :
      \E claims \in [1..n -> BatchVerifyClaims],
         evidence_list \in {NoEvidenceList}
                           \cup {EvidenceList(l) : l \in [1..m -> BatchVerifyEvidence]},
         raises \in [1..n -> BOOLEAN] :
        LET out == batch_verify_claims(claims, evidence_list, raises)
        IN  /\ t_op' = "batch_verify_claims"
            /\ t_input' = [claims |-> claims, evidence_list |-> evidence_list]
            /\ t_raises' = raises
            /\ t_output' = out.results
            /\ t_called' = out.called
            /\ UNCHANGED <<wvars, bvars, rvars, pvars, cvars, svars>>

(***************************************************************************)
(* ClaimVerificationPipeline (app.py)                                      *)
(*                                                                         *)
(* process_video is followed stage by stage.  Every stage is one action:   *)
(* it makes the stage's collaborator call, whose outcome is chosen here,   *)
(* and everything process_video does with the result up to the next call.  *)
(* The handler 'except Exception' of process_video has no action: every    *)
(* stage catches its own exceptions, so nothing reaches it.                *)
(***************************************************************************)
\* Python's None
None == "None"

\* a Claim of gemini_service as asdict() returns it
ClaimData(i, text) ==
    [claim_id |-> <<"claim", i>>, text |-> text,
     confidence |-> Rat(9, 10), claim_type |-> "factual"]

\* what the model answers to a verification prompt: a full verdict, or a JSON
\* object without the fields (the defaults of verification.get apply)
Verdicts ==
    {[label |-> "true", confidence |-> Rat(9, 10), explanation |-> "supported",
      citations |-> <<"source 1">>],
     [label |-> "uncertain", confidence |-> Rat(0, 1), explanation |-> "",
      citations |-> <<>>]}

\* results = {...} at the start of process_video
InitialResults(vid) ==
    [video_id |-> vid, status |-> "processing", transcript |-> None,
     claims |-> <<>>, evidence |-> EmptyDict, verifications |-> <<>>,
     total_time |-> 0]

\* variant of WriteLatency: the latency is written in every case
WriteLatencyAlways(log, component, raised) == Append(log, component)

\* self.influxdb_manager.write_latency_metric(component=...) stands after the
\* collaborator call inside the try block of the stage: it is not reached when
\* the call raises
WriteLatency(log, component, raised) ==
    IF raised THEN log ELSE Append(log, component)

\* variant of EvidenceField: the entry of the claim is not looked up
EvidenceFieldDefault(evidence_by_claim, claim, key) == <<>>

\* variant of Falsy: only None is taken for a missing value
FalsyNoneOnly(value) == value = None

\* 'not value' on a string or None
Falsy(value) == value = None \/ value = ""

\* variant of NoClaims: the empty list is not noticed
NoClaimsIgnored(claims) == FALSE

\* 'not claims' on a list
NoClaims(claims) == claims = <<>>

\* variant of Failed: the message is not recorded
FailedNoError(res, message) == [res EXCEPT !.status = "failed"]

\* results["status"] = "failed"; results["error"] = message
Failed(res, message) == Put([res EXCEPT !.status = "failed"], "error", message)

\* {r["claim"]: r for r in evidence_results}
RECURSIVE DictByClaim(_, _)
DictByClaim(evidence_results, dict) ==
    IF evidence_results = <<>> THEN dict
    ELSE DictByClaim(Tail(evidence_results),
                     Put(dict, Head(evidence_results).claim, Head(evidence_results)))

\* evidence_dict.get(claim, {}) followed by .get(key, default)
EvidenceField(evidence_by_claim, claim, key) ==
    IF claim \in DOMAIN evidence_by_claim /\ key \in DOMAIN evidence_by_claim[claim]
    THEN evidence_by_claim[claim][key]
    ELSE <<>>

\* the loop of verify_claims: answers[i] is the outcome of
\* gemini_service.verify_claim for claims[i].  The loop ends at the first call
\* that raises; acc collects the results and the calls that were made, each
\* with its arguments and its outcome.
RECURSIVE verify_loop(_, _, _, _, _)
verify_loop(claims, evidence_by_claim, answers, i, acc) ==
    IF i > Len(claims) THEN acc
    ELSE LET claim == claims[i]
             evidence_text == EvidenceField(evidence_by_claim, claim, "evidence_text")
             call == [claim |-> claim, evidence |-> evidence_text, outcome |-> answers[i]]
         IN  IF answers[i].raised
             THEN [results |-> acc.results, calls |-> Append(acc.calls, call),
                   raised |-> TRUE]
             ELSE verify_loop(claims, evidence_by_claim, answers, i + 1,
                    [results |-> Append(acc.results,
                        [claim |-> claim,
                         label |-> answers[i].value.label,
                         confidence |-> answers[i].value.confidence,
                         explanation |-> answers[i].value.explanation,
                         citations |-> answers[i].value.citations,
                         sources |-> EvidenceField(evidence_by_claim, claim, "sources")]),
                     calls |-> Append(acc.calls, call),
                     raised |-> FALSE])

\* variant of FirstMatch: the loop over the verifications has no break, the
\* last match is the one that stays
LastMatch(verification_list, text) ==
    IF \E j \in 1..Len(verification_list) : verification_list[j].claim = text
    THEN CHOOSE j \in 1..Len(verification_list) :
            /\ verification_list[j].claim = text
            /\ \A k \in (j + 1)..Len(verification_list) : verification_list[k].claim # text
    ELSE 0

\* the first verification whose claim is the text, 0 when there is none
FirstMatch(verification_list, text) ==
    IF \E j \in 1..Len(verification_list) : verification_list[j].claim = text
    THEN CHOOSE j \in 1..Len(verification_list) :
            /\ verification_list[j].claim = text
            /\ \A k \in 1..(j - 1) : verification_list[k].claim # text
    ELSE 0

\* the loop of save_results_to_db.  storage[i] tells what the database does
\* with the inserts made for the i-th claim:
\*   "ok"             both inserts succeed
\*   "claim_none"     the INSERT of insert_claim fails: no row, returns None
\*   "claim_raise"    insert_claim raises inside execute_query: no row
\*   "claim_id_raise" the INSERT is committed, then SELECT LAST_INSERT_ID()
\*                    raises: the row stays and insert_claim raises
\*   "claim_id_zero"  the INSERT is committed and LAST_INSERT_ID() is 0: the
\*                    row stays and insert_claim returns a falsy id
\*   "verif_false"    insert_verification reports failure (returns False)
\*   "verif_raise"    insert_verification raises
\* acc: the rows written, the inserts attempted (a claim insert with what it
\* returned), whether a call failed, and whether a call raised (which ends
\* the loop)
RECURSIVE save_loop(_, _, _, _, _)
save_loop(claim_list, verification_list, storage, i, acc) ==
    IF i > Len(claim_list) THEN acc
    ELSE LET text == claim_list[i].text
             claim_op(returned) ==
                 [op |-> "insert_claim", text |-> text, returned |-> returned]
             claim_id == Len(acc.claim_rows) + 1
             j == FirstMatch(verification_list, text)
             verif_op == [op |-> "insert_verification", claim_id |-> claim_id,
                          verification |-> j]
             row == [claim_id |-> claim_id, claim_text |-> text]
         IN  IF storage[i] = "claim_raise"
             THEN [acc EXCEPT !.ops = Append(@, claim_op("raised")), !.failed = TRUE,
                              !.raised = TRUE]
             ELSE IF storage[i] = "claim_none"
             THEN save_loop(claim_list, verification_list, storage, i + 1,
                    [acc EXCEPT !.ops = Append(@, claim_op("none")), !.failed = TRUE])
             ELSE IF storage[i] = "claim_id_raise"
             THEN [acc EXCEPT !.ops = Append(@, claim_op("raised")),
                              !.claim_rows = Append(@, row),
                              !.failed = TRUE, !.raised = TRUE]
             ELSE IF storage[i] = "claim_id_zero"
             THEN save_loop(claim_list, verification_list, storage, i + 1,
                    [acc EXCEPT !.ops = Append(@, claim_op("zero")),
                                !.claim_rows = Append(@, row),
                                !.failed = TRUE])
             ELSE LET with_claim ==
                        [acc EXCEPT !.ops = Append(@, claim_op("id")),
                                    !.claim_rows = Append(@, row)]
                  IN  IF j = 0
                      THEN save_loop(claim_list, verification_list, storage, i + 1, with_claim)
                      ELSE IF storage[i] = "verif_raise"
                      THEN [with_claim EXCEPT !.ops = Append(@, verif_op), !.failed = TRUE,
                                              !.raised = TRUE]
                      ELSE IF storage[i] = "verif_false"
                      THEN save_loop(claim_list, verification_list, storage, i + 1,
                             [with_claim EXCEPT !.ops = Append(@, verif_op),
                                                !.failed = TRUE])
                      ELSE save_loop(claim_list, verification_list, storage, i + 1,
                             [with_claim EXCEPT
                                 !.ops = Append(@, verif_op),
                                 !.verification_rows =
                                     Append(@, [claim_id |-> claim_id,
                                                label |-> verification_list[j].label])])

StorageOutcomes ==
    {"ok", "claim_none", "claim_raise", "claim_id_raise", "claim_id_zero", "verif_false",
     "verif_raise"}

PipelineClaimTexts == {"claim A", "claim B"}

PipelineAnswers == {ApiAnswer(0), ApiAnswer(MaxHits)}

PipelineIdle ==
    /\ p_pc = "idle"
    /\ save_to_db = FALSE
    /\ results = InitialResults("")
    /\ audio_path = None
    /\ transcript = None
    /\ claims_data = <<>>
    /\ evidence_dict = EmptyDict
    /\ verifications = <<>>
    /\ clock = 0
    /\ pipeline_start = 0
    /\ p_calls = <<>>
    /\ metrics = <<>>
    /\ gemini_calls = <<>>
    /\ db = [claim_rows |-> <<>>, verification_rows |-> <<>>, ops |-> <<>>, failed |-> FALSE,
             raised |-> FALSE]
    /\ p_failed = {}

\* process_video(video_path, video_id, save_to_db) is called: pipeline_start =
\* time.time() reads the clock, whose value at the call is any time from the
\* construction on
ProcessVideo ==
    /\ p_pc = "idle"
    /\ \E flag \in BOOLEAN : save_to_db' = flag
    /\ \E now \in clock..MaxStart :
          /\ clock' = now
          /\ pipeline_start' = now
    /\ results' = InitialResults("video_001")
    /\ p_pc' = "extract_audio"
    /\ UNCHANGED <<audio_path, transcript, claims_data, evidence_dict, verifications,
                   p_calls, metrics, gemini_calls, db, p_failed>>
    /\ UNCHANGED <<wvars, bvars, rvars, tvars, cvars, svars>>

\* audio_path = self.data_fetcher.extract_audio(video_path)
\*   "path": ffmpeg succeeds; "none": ffmpeg ends with a non-zero code;
\*   "raise": the call raises inside extract_audio, which returns None
ExtractAudio ==
    /\ p_pc = "extract_audio"
    /\ \E outcome \in {"path", "none", "raise"} :
          /\ audio_path' = IF outcome = "path" THEN "audio.wav" ELSE None
          /\ p_failed' = IF outcome = "raise" THEN p_failed \cup {"extract_audio"}
                         ELSE p_failed
          /\ IF ~Falsy(audio_path')
             THEN /\ p_pc' = "transcribe_audio"
                  /\ UNCHANGED results
             ELSE /\ p_pc' = "returned"
                  /\ results' = Failed(results, "Audio extraction failed")
    /\ clock' = clock + 1
    /\ p_calls' = Append(p_calls, "extract_audio")
    /\ UNCHANGED <<save_to_db, transcript, claims_data, evidence_dict, verifications,
                   pipeline_start, metrics, gemini_calls, db>>
    /\ UNCHANGED <<wvars, bvars, rvars, tvars, cvars, svars>>

\* transcript = self.transcribe_audio(audio_path)
\*   "text": the service answers with a text; "empty": with an empty text;
\*   "absent": with no text; "raise": the request fails (None is returned
\*   and no latency is written)
TranscribeAudio ==
    /\ p_pc = "transcribe_audio"
    /\ \E outcome \in {"text", "empty", "absent", "raise"} :
          /\ transcript' = CASE outcome = "text" -> "some transcript"
                             [] outcome = "empty" -> ""
                             [] OTHER -> None
          /\ metrics' = WriteLatency(metrics, "whisper", outcome = "raise")
          /\ p_failed' = IF outcome = "raise" THEN p_failed \cup {"transcribe_audio"}
                         ELSE p_failed
          /\ IF ~Falsy(transcript')
             THEN /\ p_pc' = "extract_claims"
                  /\ results' = [results EXCEPT !.transcript = transcript']
             ELSE /\ p_pc' = "returned"
                  /\ results' = Failed(results, "Transcription failed")
    /\ clock' = clock + 1
    /\ p_calls' = Append(p_calls, "transcribe_audio")
    /\ UNCHANGED <<save_to_db, audio_path, claims_data, evidence_dict, verifications,
                   pipeline_start, gemini_calls, db>>
    /\ UNCHANGED <<wvars, bvars, rvars, tvars, cvars, svars>>

\* the claim texts: claims = [c["text"] for c in claims_data]
ClaimTextsOf(data) == [i \in 1..Len(data) |-> data[i].text]

\* variant of ExtractClaims: process_video goes on with verification
ExtractClaimsSkipRetrieval ==
    /\ p_pc = "extract_claims"
    /\ \E raises \in BOOLEAN, n \in 0..MaxClaims :
       \E texts \in [1..n -> PipelineClaimTexts] :
          LET data == IF raises THEN <<>>
                      ELSE [i \in 1..n |-> ClaimData(i, texts[i])]
          IN  /\ raises => n = 0
              /\ claims_data' = data
              /\ metrics' = WriteLatency(metrics, "claim_extraction", raises)
              /\ p_failed' = IF raises THEN p_failed \cup {"extract_claims"} ELSE p_failed
              /\ IF NoClaims(ClaimTextsOf(data))
                 THEN /\ p_pc' = "returned"
                      /\ results' = [results EXCEPT !.claims = data,
                                                    !.status = "completed",
                                                    !.total_time = (clock + 1) - pipeline_start]
                 ELSE /\ p_pc' = "verify_claims"
                      /\ results' = [results EXCEPT !.claims = data]
    /\ clock' = clock + 1
    /\ p_calls' = Append(p_calls, "extract_claims")
    /\ UNCHANGED <<save_to_db, audio_path, transcript, evidence_dict, verifications,
                   pipeline_start, gemini_calls, db>>
    /\ UNCHANGED <<wvars, bvars, rvars, tvars, cvars, svars>>

\* claims_data = self.extract_claims(transcript): the claims the model
\* extracted, or [] when gemini_service.extract_claims raises
ExtractClaims ==
    /\ p_pc = "extract_claims"
    /\ \E raises \in BOOLEAN, n \in 0..MaxClaims :
       \E texts \in [1..n -> PipelineClaimTexts] :
          LET data == IF raises THEN <<>>
                      ELSE [i \in 1..n |-> ClaimData(i, texts[i])]
          IN  /\ raises => n = 0
              /\ claims_data' = data
              /\ metrics' = WriteLatency(metrics, "claim_extraction", raises)
              /\ p_failed' = IF raises THEN p_failed \cup {"extract_claims"} ELSE p_failed
              /\ IF NoClaims(ClaimTextsOf(data))
                 THEN /\ p_pc' = "returned"
                      /\ results' = [results EXCEPT !.claims = data,
                                                    !.status = "completed",
                                                    !.total_time = (clock + 1) - pipeline_start]
                 ELSE /\ p_pc' = "retrieve_evidence"
                      /\ results' = [results EXCEPT !.claims = data]
    /\ clock' = clock + 1
    /\ p_calls' = Append(p_calls, "extract_claims")
    /\ UNCHANGED <<save_to_db, audio_path, transcript, evidence_dict, verifications,
                   pipeline_start, gemini_calls, db>>
    /\ UNCHANGED <<wvars, bvars, rvars, tvars, cvars, svars>>

\* evidence_dict = self.retrieve_evidence(claims): the bundles of
\* batch_retrieve_evidence keyed by claim, or {} when the stage raises
RetrieveEvidence ==
    /\ p_pc = "retrieve_evidence"
    /\ \E raises \in BOOLEAN, answers \in [1..Len(claims_data) -> PipelineAnswers] :
          LET claims == ClaimTextsOf(claims_data)
              env == [i \in 1..Len(claims) |-> [raises |-> FALSE, answer |-> answers[i]]]
              evidence_results ==
                  batch_retrieve_evidence(claims, env, NumResults, ExtractFullText).results
              dict == IF raises THEN EmptyDict ELSE DictByClaim(evidence_results, EmptyDict)
          IN  /\ raises => \A i \in 1..Len(claims) : answers[i] = ApiAnswer(0)
              /\ evidence_dict' = dict
              /\ results' = [results EXCEPT !.evidence = dict]
              /\ metrics' = WriteLatency(metrics, "evidence_retrieval", raises)
              /\ p_failed' = IF raises THEN p_failed \cup {"retrieve_evidence"} ELSE p_failed
    /\ p_pc' = "verify_claims"
    /\ clock' = clock + 1
    /\ p_calls' = Append(p_calls, "retrieve_evidence")
    /\ UNCHANGED <<save_to_db, audio_path, transcript, claims_data, verifications,
                   pipeline_start, gemini_calls, db>>
    /\ UNCHANGED <<wvars, bvars, rvars, tvars, cvars, svars>>

\* variant of Completed: the status is left as it is
CompletedNoStatus(res, now) == [res EXCEPT !.total_time = now - pipeline_start]

\* variant of Completed: the start time is not subtracted
CompletedSinceEpoch(res, now) ==
    [res EXCEPT !.status = "completed", !.total_time = now]

\* what process_video does after the last stage: status, total_time, return
Completed(res, now) ==
    [res EXCEPT !.status = "completed", !.total_time = now - pipeline_start]

\* variant of VerifiedOrNothing: the results obtained before the failure stay
VerifiedSoFar(out) == out.results

\* what verify_claims returns: 'return results' at the end of try, 'return []'
\* in the handler
VerifiedOrNothing(out) == IF out.raised THEN <<>> ELSE out.results

\* verifications = self.verify_claims(claims, evidence_dict): one
\* gemini_service.verify_claim call per claim, [] when one of them raises.
\* Without save_to_db process_video completes here.
VerifyClaims ==
    /\ p_pc = "verify_claims"
    /\ \E answers \in [1..Len(claims_data) -> {Raised} \cup {Returned(v) : v \in Verdicts}] :
          LET out == verify_loop(ClaimTextsOf(claims_data), evidence_dict, answers, 1,
                                 [results |-> <<>>, calls |-> <<>>, raised |-> FALSE])
              verifs == VerifiedOrNothing(out)
          IN  /\ \A i, j \in 1..Len(answers) : (i < j /\ answers[i].raised) => answers[j].raised
              /\ verifications' = verifs
              /\ gemini_calls' = out.calls
              /\ metrics' = WriteLatency(metrics, "verification", out.raised)
              /\ p_failed' = IF out.raised THEN p_failed \cup {"verify_claims"} ELSE p_failed
              /\ IF save_to_db
                 THEN /\ p_pc' = "save_results_to_db"
                      /\ results' = [results EXCEPT !.verifications = verifs]
                 ELSE /\ p_pc' = "returned"
                      /\ results' = Completed([results EXCEPT !.verifications = verifs],
                                              clock + 1)
    /\ clock' = clock + 1
    /\ p_calls' = Append(p_calls, "verify_claims")
    /\ UNCHANGED <<save_to_db, audio_path, transcript, claims_data, evidence_dict,
                   pipeline_start, db>>
    /\ UNCHANGED <<wvars, bvars, rvars, tvars, cvars, svars>>

\* variant of SaveOutcome: an exception of the storage leaves save_results_to_db
\* and reaches the handler of process_video
SaveOutcomeUncaught(res, saved, now) ==
    IF saved.failed THEN Failed(res, "storage error") ELSE Completed(res, now)

\* save_results_to_db catches and logs everything: process_video goes on to
\* status = "completed" whatever the storage did
SaveOutcome(res, saved, now) == Completed(res, now)

\* self.save_results_to_db(video_id, results), then process_video completes
SaveResultsToDb ==
    /\ p_pc = "save_results_to_db"
    /\ \E storage \in [1..Len(claims_data) -> StorageOutcomes] :
          LET saved == save_loop(results.claims, results.verifications, storage, 1, db)
          IN  /\ db' = saved
              /\ results' = SaveOutcome(results, saved, clock + 1)
    /\ p_pc' = "returned"
    /\ clock' = clock + 1
    /\ p_calls' = Append(p_calls, "save_results_to_db")
    /\ UNCHANGED <<save_to_db, audio_path, transcript, claims_data, evidence_dict,
                   verifications, pipeline_start, metrics, gemini_calls, p_failed>>
    /\ UNCHANGED <<wvars, bvars, rvars, tvars, cvars, svars>>

(***************************************************************************)
(* WERCalculator                                                           *)
(***************************************************************************)
\* the characters str.split() separates on
IsSpace(c) ==
    c \in {
      "\t", "\n", "", "\f", "\r", "", "", "", "", " ", "", " " }

\* str.split(): maximal runs of non-whitespace characters
RECURSIVE SplitWords(_, _, _, _)
SplitWords(s, i, cur, acc) ==
    IF i > Len(s)
    THEN (IF cur = <<>> THEN acc ELSE Append(acc, cur))
    ELSE IF IsSpace(s[i])
         THEN SplitWords(s, i + 1, <<>>, IF cur = <<>> THEN acc ELSE Append(acc, cur))
         ELSE SplitWords(s, i + 1, Append(cur, s[i]), acc)

split(s) == SplitWords(s, 1, <<>>, <<>>)

Min3(a, b, c) == Min2(a, Min2(b, c))

\* dp = [[0]*(n+1) ...]; dp[i][0] = i; dp[0][j] = j
InitDP(m, n) ==
    [i \in 0..m |-> [j \in 0..n |-> IF j = 0 THEN i ELSE IF i = 0 THEN j ELSE 0]]

\* variant of DPCell: no substitution, a mismatch costs a deletion or an insertion
DPCellNoSubstitution(dp, ref_words, hyp_words, i, j) ==
    IF ref_words[i] = hyp_words[j]
    THEN dp[i - 1][j - 1]
    ELSE 1 + Min2(dp[i - 1][j], dp[i][j - 1])

\* one cell of the table, from the three neighbours already filled
DPCell(dp, ref_words, hyp_words, i, j) ==
    IF ref_words[i] = hyp_words[j]
    THEN dp[i - 1][j - 1]
    ELSE 1 + Min3(dp[i - 1][j], dp[i][j - 1], dp[i - 1][j - 1])

\* for i in range(1, m+1): for j in range(1, n+1): ...
RECURSIVE FillDP(_, _, _, _, _)
FillDP(dp, ref_words, hyp_words, i, j) ==
    IF i > Len(ref_words) THEN dp
    ELSE IF j > Len(hyp_words) THEN FillDP(dp, ref_words, hyp_words, i + 1, 1)
    ELSE FillDP([dp EXCEPT ![i][j] = DPCell(dp, ref_words, hyp_words, i, j)],
                ref_words, hyp_words, i, j + 1)

edit_distance(ref_words, hyp_words) ==
    FillDP(InitDP(Len(ref_words), Len(hyp_words)), ref_words, hyp_words, 1, 1)
        [Len(ref_words)][Len(hyp_words)]

\* variant of calculate_wer: the result is not capped at 100
calculate_wer_uncapped(ref, hyp) ==
    LET ref_words == split(ref)
        hyp_words == split(hyp)
        d == edit_distance(ref_words, hyp_words)
    IN  IF Len(ref_words) = 0
        THEN (IF Len(hyp_words) = 0 THEN Rat(0, 1) ELSE Rat(100, 1))
        ELSE Rat(d * 100, Len(ref_words))

\* WER as an exact percentage
calculate_wer(ref, hyp) ==
    LET ref_words == split(ref)
        hyp_words == split(hyp)
        d == edit_distance(ref_words, hyp_words)
    IN  IF Len(ref_words) = 0
        THEN (IF Len(hyp_words) = 0 THEN Rat(0, 1) ELSE Rat(100, 1))
        ELSE RatMin(Rat(d * 100, Len(ref_words)), Rat(100, 1))

\* ---- inputs of the WER specification ----
WordPool == {<<"a">>, <<"b">>, <<"c">>}

\* " ".join(words), with an optional extra tab before every word
RECURSIVE Render(_, _)
Render(words, pad) ==
    IF words = <<>> THEN <<>>
    ELSE (IF pad THEN <<"\t">> ELSE <<>>) \o Head(words)
         \o (IF Len(words) > 1 THEN <<" ">> ELSE <<>>)
         \o Render(Tail(words), pad)

WERTexts == {Render(ws, pad) : ws \in SeqsUpTo(WordPool, MaxWords), pad \in BOOLEAN}

WERIdle ==
    /\ reference = <<>>
    /\ hypothesis = <<>>
    /\ wer_pc = "idle"
    /\ wer = Rat(0, 1)
    /\ distance = 0

\* a caller picks the two texts
WERInput ==
    /\ wer_pc = "idle"
    /\ \E r \in WERTexts, h \in WERTexts :
          /\ reference' = r
          /\ hypothesis' = h
    /\ wer_pc' = "input"
    /\ UNCHANGED <<wer, distance, bvars, rvars, tvars, pvars, cvars, svars>>

\* WERCalculator.calculate_wer(reference, hypothesis)
CalculateWER ==
    /\ wer_pc = "input"
    /\ wer' = calculate_wer(reference, hypothesis)
    /\ distance' = edit_distance(split(reference), split(hypothesis))
    /\ wer_pc' = "done"
    /\ UNCHANGED <<reference, hypothesis, bvars, rvars, tvars, pvars, cvars, svars>>

(***************************************************************************)
(* Calls of stateless operations                                           *)
(***************************************************************************)
\* an exception of the given type leaves the call
RaisedWith(type) == [raised |-> TRUE, exception |-> type]

NoArgs == [none |-> TRUE]

CallIdle ==
    /\ c_op = "none"
    /\ c_args = NoArgs
    /\ c_out = Returned(<<>>)

(***************************************************************************)
(* A single call of EvidenceRetriever.retrieve_evidence                    *)
(***************************************************************************)
RetrieveClaims == {"claim A", "claim B"}

\* the answers of the search API: 0..MaxHits items, or a failed request
RetrieveAnswers == {ApiAnswer(n) : n \in 0..MaxHits} \cup {ApiError}

CallRetrieveEvidence ==
    /\ c_op = "none"
    /\ \E claim \in RetrieveClaims, answer \in RetrieveAnswers,
          num_results \in -1..NumResults, extract_full_text \in BOOLEAN :
          /\ c_args' = [claim |-> claim, answer |-> answer, num_results |-> num_results,
                        extract_full_text |-> extract_full_text]
          /\ c_out' = Returned(retrieve_evidence(claim, answer, num_results,
                                                 extract_full_text))
    /\ c_op' = "retrieve_evidence"
    /\ UNCHANGED <<wvars, bvars, rvars, tvars, pvars, svars>>

(***************************************************************************)
(* A single call of EvidenceReranker.get_domain_authority_score            *)
(***************************************************************************)
\* the URLs are put together from a scheme, sub-domain labels, a host and a
\* path
UrlSchemes ==
    { <<"h", "t", "t", "p", "s", ":", "/", "/">>,
      <<"h", "t", "t", "p", ":", "/", "/">>,
      <<>> }

UrlPrefixes ==
    { <<>>,
      <<"w", "w", "w", ".">>,
      <<"n", "e", "w", "s", ".">>,
      <<"w", "w", "w", ".", "w", "w", "w", ".">> }

UrlHosts ==
    { <<"w", "i", "k", "i", "p", "e", "d", "i", "a", ".", "o", "r", "g">>,
      <<"e", "x", "a", "m", "p", "l", "e", ".", "c", "o", "m">>,
      <<"b", "b", "c", ".", "c", "o", "m">>,
      <<"b", "b", "c", ".", "c", "o", ".", "u", "k">>,
      <<"c", "n", "n", ".", "c", "o", "m">>,
      <<"b", "b", "c", ".", "w", "w", "w", ".", "c", "o", "m">>,
      <<"c", "e", "n", "s", "u", "s", ".", "g", "o", "v", ".", "u", "k">> }

UrlPaths ==
    { <<>>,
      <<"/", "C", "l", "i", "m", "a", "t", "e">>,
      <<"/", "w", "w", "w", ".", "c", "n", "n", ".", "c", "o", "m", "/", "x">> }

Urls ==
    {scheme \o prefix \o host \o path :
        scheme \in UrlSchemes, prefix \in UrlPrefixes, host \in UrlHosts, path \in UrlPaths}

CallGetDomainAuthorityScore ==
    /\ c_op = "none"
    /\ \E url \in Urls :
          /\ c_args' = [url |-> url]
          /\ c_out' = Returned([domain |-> extract_domain(url),
                                score |-> get_domain_authority_score(url)])
    /\ c_op' = "get_domain_authority_score"
    /\ UNCHANGED <<wvars, bvars, rvars, tvars, pvars, svars>>

RatDiv(a, b) == RatNorm(Rat(a.num * b.den, a.den * b.num))

(***************************************************************************)
(* WERCalculator.batch_calculate_wer                                       *)
(***************************************************************************)
\* [calculate_wer(ref, hyp) for ref, hyp in zip(references, hypotheses)]
wer_list(references, hypotheses) ==
    [i \in 1..Min2(Len(references), Len(hypotheses)) |->
        calculate_wer(references[i], hypotheses[i])]

\* sum(wers)
RECURSIVE SumSeqRat(_)
SumSeqRat(values) ==
    IF values = <<>> THEN Rat(0, 1) ELSE RatAdd(Head(values), SumSeqRat(Tail(values)))

\* the outcome of batch_calculate_wer; calls lists the pairs calculate_wer
\* was called for
WerBatchResult(references, hypotheses) ==
    LET wers == wer_list(references, hypotheses)
        avg_wer == IF wers # <<>> THEN RatDiv(SumSeqRat(wers), Rat(Len(wers), 1))
                   ELSE Rat(0, 1)
    IN  [raised |-> FALSE,
         value |-> [avg_wer |-> avg_wer, wers |-> wers],
         calls |-> [i \in 1..Len(wers) |-> <<references[i], hypotheses[i]>>]]

\* variant of batch_calculate_wer: the lengths are not compared
batch_calculate_wer_unchecked(references, hypotheses) ==
    WerBatchResult(references, hypotheses)

batch_calculate_wer(references, hypotheses) ==
    IF Len(references) # Len(hypotheses)
    THEN [raised |-> TRUE, exception |-> "ValueError", calls |-> <<>>]
    ELSE WerBatchResult(references, hypotheses)

\* ---- inputs ----
BatchWERTexts ==
    { <<>>,
      <<"a", " ", "b">>,
      <<"a", " ", "c">>,
      <<"b">> }

BatchWERLists == SeqsUpTo(BatchWERTexts, MaxPairs)

BatchCalculateWER ==
    /\ c_op = "none"
    /\ \E references \in BatchWERLists, hypotheses \in BatchWERLists :
          /\ c_args' = [references |-> references, hypotheses |-> hypotheses]
          /\ c_out' = batch_calculate_wer(references, hypotheses)
    /\ c_op' = "batch_calculate_wer"
    /\ UNCHANGED <<wvars, bvars, rvars, tvars, pvars, svars>>

(***************************************************************************)
(* BatchEvaluator                                                          *)
(***************************************************************************)
\* sum(f[x] for x in S) over integers
RECURSIVE SumInt(_, _)
SumInt(S, f) ==
    IF S = {} THEN 0
    ELSE LET x == CHOOSE y \in S : TRUE IN f[x] + SumInt(S \ {x}, f)

\* sum(f[x] for x in S) over fractions
RECURSIVE SumRat(_, _)
SumRat(S, f) ==
    IF S = {} THEN Rat(0, 1)
    ELSE LET x == CHOOSE y \in S : TRUE IN RatAdd(f[x], SumRat(S \ {x}, f))

\* variant of matrix_loop: rows are indexed by the prediction
RECURSIVE matrix_loop_transposed(_, _, _, _)
matrix_loop_transposed(ground_truth, predictions, i, matrix) ==
    IF i > Len(ground_truth) \/ i > Len(predictions) THEN matrix
    ELSE matrix_loop_transposed(ground_truth, predictions, i + 1,
            [matrix EXCEPT ![predictions[i]][ground_truth[i]] = @ + 1])

\* the loop of calculate_confusion_matrix over zip(ground_truth, predictions)
RECURSIVE matrix_loop(_, _, _, _)
matrix_loop(ground_truth, predictions, i, matrix) ==
    IF i > Len(ground_truth) \/ i > Len(predictions) THEN matrix
    ELSE matrix_loop(ground_truth, predictions, i + 1,
            [matrix EXCEPT ![ground_truth[i]][predictions[i]] = @ + 1])

calculate_confusion_matrix(ground_truth, predictions) ==
    LET labels == Range(ground_truth \o predictions)
    IN  matrix_loop(ground_truth, predictions, 1,
                    [label \in labels |-> [l \in labels |-> 0]])

\* n / d if d > 0 else 0.0
Ratio(n, d) == IF d > 0 THEN RatNorm(Rat(n, d)) ELSE Rat(0, 1)

\* variant of HarmonicMean: the mean of the two values
ArithmeticMean(p, r) == RatDiv(RatAdd(p, r), Rat(2, 1))

\* 2 * (p * r) / (p + r) if (p + r) > 0 else 0.0
HarmonicMean(p, r) ==
    IF RatLt(Rat(0, 1), RatAdd(p, r))
    THEN RatDiv(RatMul(Rat(2, 1), RatMul(p, r)), RatAdd(p, r))
    ELSE Rat(0, 1)

\* the body of the loop 'for label in labels' of calculate_metrics
LabelMetrics(confusion_matrix, label) ==
    LET labels == DOMAIN confusion_matrix
        tp == confusion_matrix[label][label]
        fp == SumInt(labels \ {label}, [other \in labels |-> confusion_matrix[other][label]])
        fn == SumInt(labels \ {label}, [other \in labels |-> confusion_matrix[label][other]])
        precision == Ratio(tp, tp + fp)
        recall == Ratio(tp, tp + fn)
    IN  [precision |-> precision, recall |-> recall,
         f1_score |-> HarmonicMean(precision, recall), support |-> tp + fn]

calculate_metrics(ground_truth, predictions) ==
    IF Len(ground_truth) # Len(predictions) THEN RaisedWith("ValueError")
    ELSE LET confusion_matrix == calculate_confusion_matrix(ground_truth, predictions)
             labels == DOMAIN confusion_matrix
             per_label_metrics == [label \in labels |-> LabelMetrics(confusion_matrix, label)]
         IN  IF Cardinality(labels) = 0
             THEN \* sum(...) / len(labels) divides by zero
                  RaisedWith("ZeroDivisionError")
             ELSE LET n == Rat(Cardinality(labels), 1)
                      macro_precision ==
                          RatDiv(SumRat(labels, [l \in labels |-> per_label_metrics[l].precision]), n)
                      macro_recall ==
                          RatDiv(SumRat(labels, [l \in labels |-> per_label_metrics[l].recall]), n)
                      correct == SumInt(labels, [l \in labels |-> confusion_matrix[l][l]])
                  IN  Returned([precision |-> macro_precision,
                                recall |-> macro_recall,
                                f1_score |-> HarmonicMean(macro_precision, macro_recall),
                                accuracy |-> Ratio(correct, Len(ground_truth)),
                                confusion_matrix |-> confusion_matrix,
                                per_label_metrics |-> per_label_metrics])

\* ---- inputs of the evaluator specification ----
EvalLabels == {"true", "false", "uncertain"}

LabelLists == SeqsUpTo(EvalLabels, MaxItems)

CalculateConfusionMatrix ==
    /\ c_op = "none"
    /\ \E ground_truth \in LabelLists, predictions \in LabelLists :
          /\ c_args' = [ground_truth |-> ground_truth, predictions |-> predictions]
          /\ c_out' = Returned(calculate_confusion_matrix(ground_truth, predictions))
    /\ c_op' = "calculate_confusion_matrix"
    /\ UNCHANGED <<wvars, bvars, rvars, tvars, pvars, svars>>

CalculateMetrics ==
    /\ c_op = "none"
    /\ \E ground_truth \in LabelLists, predictions \in LabelLists :
          /\ c_args' = [ground_truth |-> ground_truth, predictions |-> predictions]
          /\ c_out' = calculate_metrics(ground_truth, predictions)
    /\ c_op' = "calculate_metrics"
    /\ UNCHANGED <<wvars, bvars, rvars, tvars, pvars, svars>>

(***************************************************************************)
(* GeminiService (components/gemini_service.py)                            *)
(***************************************************************************)
\* dict.get(key, default)
Get(dict, key, default) == IF key \in DOMAIN dict THEN dict[key] ELSE default

\* GeminiService.verify_claim.  answer is what generate_content and the
\* parsing of its text give: an exception (the request fails, the text holds
\* no JSON object, json.loads fails), or the "verification" object of the
\* parsed JSON, whose missing fields take the defaults of verification.get
gemini_verify_claim(claim, evidence, answer) ==
    IF answer.raised THEN answer
    ELSE Returned([claim_id |-> Get(answer.value, "claim_id", "unknown"),
                   claim_text |-> claim,
                   label |-> Get(answer.value, "label", "uncertain"),
                   confidence |-> Get(answer.value, "confidence", Rat(0, 1)),
                   explanation |-> Get(answer.value, "explanation", ""),
                   citations |-> Get(answer.value, "citations", <<>>),
                   evidence_used |-> Prefix(evidence, 500)])

\* one iteration of GeminiService.batch_verify_claims: the result is appended
\* inside try; the handler only logs
GeminiVerifyStep(batch_results, claim, result) ==
    IF result.raised THEN batch_results ELSE Append(batch_results, result.value)

RECURSIVE gemini_batch_verify_loop(_, _, _, _)
gemini_batch_verify_loop(claims_with_evidence, answers, i, acc) ==
    IF i > Len(claims_with_evidence) THEN acc
    ELSE LET claim == claims_with_evidence[i][1]
             evidence == claims_with_evidence[i][2]
         IN  gemini_batch_verify_loop(claims_with_evidence, answers, i + 1,
                GeminiVerifyStep(acc, claim,
                                 gemini_verify_claim(claim, evidence, answers[i])))

\* GeminiService.batch_verify_claims(claims_with_evidence)
gemini_batch_verify_claims(claims_with_evidence, answers) ==
    gemini_batch_verify_loop(claims_with_evidence, answers, 1, <<>>)

\* ---- inputs ----
GeminiClaims == {"claim A", "claim B"}

\* evidence texts: a short one, and one longer than the 500 characters kept
GeminiEvidence == {<<"s", "e", "a">>, [i \in 1..501 |-> "x"]}

\* the verification objects the model answers with: complete, or empty
GeminiAnswers ==
    {Raised,
     Returned([claim_id |-> "claim_1", label |-> "true", confidence |-> Rat(9, 10),
               explanation |-> "supported", citations |-> <<"source 1">>]),
     Returned(EmptyDict)}

CallGeminiBatchVerifyClaims ==
    /\ c_op = "none"
    /\ \E n \in 0..MaxPairs :
       \E pairs \in [1..n -> GeminiClaims \X GeminiEvidence],
          answers \in [1..n -> GeminiAnswers] :
          /\ c_args' = [claims_with_evidence |-> pairs, answers |-> answers]
          /\ c_out' = Returned(gemini_batch_verify_claims(pairs, answers))
    /\ c_op' = "gemini_batch_verify_claims"
    /\ UNCHANGED <<wvars, bvars, rvars, tvars, pvars, svars>>

(***************************************************************************)
(* EvidenceReranker.get_top_evidence                                       *)
(***************************************************************************)
\* variant of FilterMinScore: nothing is removed
FilterNothing(reranked, min_score) == reranked

\* [e for e in reranked if e.relevance_score >= min_score]
FilterMinScore(reranked, min_score) ==
    SelectSeq(reranked, LAMBDA e : FltLe(min_score, e.relevance_score))

\* get_top_evidence(claim, evidence_list, top_k, min_score): rerank_evidence
\* is called without weights
get_top_evidence(claim, evidence_list, top_k, min_score) ==
    Prefix(FilterMinScore(rerank_evidence(claim, evidence_list, NoWeights), min_score),
           top_k)

\* the defaults of the parameters top_k and min_score
DefaultTopK == 3

\* variant of DefaultMinScore: a threshold of one half
DefaultMinScoreHalf == Flt(1, 2)

DefaultMinScore == Flt(3, 10)

\* get_top_evidence(claim, evidence_list): top_k and min_score take their defaults
get_top_evidence_defaults(claim, evidence_list) ==
    get_top_evidence(claim, evidence_list, DefaultTopK, DefaultMinScore)

\* ---- inputs ----
MinScores == {FltZero, DefaultMinScore, Flt(1, 2), Flt(7, 10), FltOne}

\* a caller picks the claim, the evidence list, top_k and min_score
TopEvidenceInput ==
    /\ c_op = "none"
    /\ \E c \in RerankClaims, ev \in SeqsUpTo(EvidencePool, MaxEvidence),
          top_k \in 0..MaxTopK, min_score \in MinScores :
          c_args' = [claim |-> c, evidence_list |-> ev, top_k |-> top_k,
                     min_score |-> min_score]
    /\ c_op' = "get_top_evidence_input"
    /\ UNCHANGED <<c_out, wvars, bvars, rvars, tvars, pvars, svars>>

\* EvidenceReranker.get_top_evidence(claim, evidence_list, top_k, min_score)
CallGetTopEvidence ==
    /\ c_op = "get_top_evidence_input"
    /\ c_out' = Returned(get_top_evidence(c_args.claim, c_args.evidence_list,
                                          c_args.top_k, c_args.min_score))
    /\ c_op' = "get_top_evidence"
    /\ UNCHANGED <<c_args, wvars, bvars, rvars, tvars, pvars, svars>>

\* a call that leaves top_k and min_score to their defaults
CallGetTopEvidenceDefaults ==
    /\ c_op = "none"
    /\ \E c \in RerankClaims, ev \in SeqsUpTo(EvidencePool, MaxRanked) :
          /\ c_args' = [claim |-> c, evidence_list |-> ev]
          /\ c_out' = Returned(get_top_evidence_defaults(c, ev))
    /\ c_op' = "get_top_evidence_defaults"
    /\ UNCHANGED <<wvars, bvars, rvars, tvars, pvars, svars>>

(***************************************************************************)
(* BatchEvaluator.evaluate_with_confidence                                 *)
(***************************************************************************)
\* evaluate_batch(results): the two fields of every item, then calculate_metrics
evaluate_batch(result_list) ==
    calculate_metrics([i \in 1..Len(result_list) |-> result_list[i].ground_truth],
                      [i \in 1..Len(result_list) |-> result_list[i].label])

\* evaluate_with_confidence(results, confidence_threshold): an exception of
\* evaluate_batch leaves the call
evaluate_with_confidence(result_list, confidence_threshold) ==
    LET filtered_results ==
            SelectSeq(result_list,
                      LAMBDA r : RatLe(confidence_threshold, Get(r, "confidence", Rat(0, 1))))
        batch_metrics == evaluate_batch(filtered_results)
    IN  IF batch_metrics.raised THEN batch_metrics
        ELSE Returned(
               [threshold |-> confidence_threshold,
                total_results |-> Len(result_list),
                filtered_results |-> Len(filtered_results),
                coverage |-> IF result_list # <<>>
                             THEN RatDiv(Rat(Len(filtered_results), 1),
                                         Rat(Len(result_list), 1))
                             ELSE Rat(0, 1),
                metrics |-> [precision |-> batch_metrics.value.precision,
                             recall |-> batch_metrics.value.recall,
                             f1_score |-> batch_metrics.value.f1_score,
                             accuracy |-> batch_metrics.value.accuracy]])

\* ---- inputs ----
\* result items, with and without a confidence
ResultItems ==
    {[ground_truth |-> g, label |-> l, confidence |-> c] :
        g \in {"true", "false"}, l \in {"true", "false"}, c \in {Rat(4, 10), Rat(9, 10)}}
    \cup {[ground_truth |-> g, label |-> l] : g \in {"true", "false"}, l \in {"true", "false"}}

Thresholds == {Rat(0, 1), Rat(1, 2), Rat(1, 1)}

EvaluateWithConfidence ==
    /\ c_op = "none"
    /\ \E result_list \in SeqsUpTo(ResultItems, MaxResults), threshold \in Thresholds :
          /\ c_args' = [results |-> result_list, confidence_threshold |-> threshold]
          /\ c_out' = evaluate_with_confidence(result_list, threshold)
    /\ c_op' = "evaluate_with_confidence"
    /\ UNCHANGED <<wvars, bvars, rvars, tvars, pvars, svars>>

(***************************************************************************)
(* whisper_server.transcribe (whisper_service/whisper_server.py)           *)
(*                                                                         *)
(* The handler is a coroutine of one event loop.  Its only await is        *)
(* 'await file.read()', which stands inside the with block, after open():  *)
(* from the start to the await, and from the await to the response, a      *)
(* request runs without any other request running in between.  s_loop      *)
(* holds the request that runs between the await and its response.         *)
(***************************************************************************)
Requests == 1..MaxRequests

\* the filenames the uploads carry
Filenames == {"a.wav", "b.wav"}

\* the bytes request r uploads: different for every request, and of
\* different lengths
Upload(r) == [i \in 1..(MaxRequests + 1 - r) |-> r]

\* f"/tmp/{file.filename}"
TempPath(filename) == <<"/tmp", filename>>

\* temp_file_path = None
NoPath == <<>>

\* what whisper_model.transcribe read: the bytes of the file at the path, or
\* no file
Audio(bytes) == [file |-> TRUE, bytes |-> bytes]

NoAudio == [file |-> FALSE, bytes |-> <<>>]

\* the bytes of a file after writing at offset 0 through a handle opened
\* with "wb": what was written later through another handle stays behind it
Overlay(old, new) ==
    IF Len(new) >= Len(old) THEN new
    ELSE new \o SubSeq(old, Len(new) + 1, Len(old))

\* os.path.exists(path)
Exists(dir, path) == dir[path] # 0

\* finally: if temp_file_path and os.path.exists(temp_file_path): os.remove(...)
Cleanup(dir, path) ==
    IF path # NoPath /\ Exists(dir, path) THEN [dir EXCEPT ![path] = 0] ELSE dir

WhisperIdle ==
    /\ s_pc = [r \in Requests |-> "new"]
    /\ s_path = [r \in Requests |-> NoPath]
    /\ s_f = [r \in Requests |-> 0]
    /\ s_content = [r \in Requests |-> <<>>]
    /\ s_heard = [r \in Requests |-> NoAudio]
    /\ s_response = [r \in Requests |-> 0]
    /\ s_tmp = [path \in {TempPath(n) : n \in Filenames} |-> 0]
    /\ s_files = <<>>
    /\ s_loop = 0

\* the handler starts: temp_file_path is set and open(temp_file_path, "wb")
\* creates the file, or empties the one that is there; the handler then
\* waits at 'await file.read()'
OpenTempFile ==
    /\ s_loop = 0
    /\ \E r \in Requests, filename \in Filenames :
          LET path == TempPath(filename)
          IN  /\ s_pc[r] = "new"
              /\ s_path' = [s_path EXCEPT ![r] = path]
              /\ IF Exists(s_tmp, path)
                 THEN /\ s_f' = [s_f EXCEPT ![r] = s_tmp[path]]
                      /\ s_files' = [s_files EXCEPT ![s_tmp[path]] = <<>>]
                      /\ UNCHANGED s_tmp
                 ELSE /\ s_f' = [s_f EXCEPT ![r] = Len(s_files) + 1]
                      /\ s_files' = Append(s_files, <<>>)
                      /\ s_tmp' = [s_tmp EXCEPT ![path] = Len(s_files) + 1]
              /\ s_pc' = [s_pc EXCEPT ![r] = "reading"]
    /\ UNCHANGED <<s_content, s_heard, s_response, s_loop>>
    /\ UNCHANGED <<wvars, bvars, rvars, tvars, pvars, cvars>>

\* file.read() is over and the handler is resumed: f.write(content) and the
\* end of the with block, which closes f; when the read raised, only the
\* close.  The handler keeps the event loop until it responds.
WriteContent ==
    /\ s_loop = 0
    /\ \E r \in Requests, read_raises \in BOOLEAN :
          /\ s_pc[r] = "reading"
          /\ IF read_raises
             THEN /\ s_pc' = [s_pc EXCEPT ![r] = "failed"]
                  /\ UNCHANGED <<s_content, s_files>>
             ELSE /\ s_pc' = [s_pc EXCEPT ![r] = "written"]
                  /\ s_content' = [s_content EXCEPT ![r] = Upload(r)]
                  /\ s_files' = [s_files EXCEPT ![s_f[r]] = Overlay(@, Upload(r))]
          /\ s_loop' = r
    /\ UNCHANGED <<s_path, s_f, s_heard, s_response, s_tmp>>
    /\ UNCHANGED <<wvars, bvars, rvars, tvars, pvars, cvars>>

\* result = whisper_model.transcribe(temp_file_path): the model reads the file
\* that is at the path now; it raises when there is none, and it may raise on
\* what it reads
Transcribe ==
    /\ \E r \in Requests, model_raises \in BOOLEAN :
          /\ s_loop = r
          /\ s_pc[r] = "written"
          /\ IF Exists(s_tmp, s_path[r])
             THEN /\ s_heard' = [s_heard EXCEPT ![r] = Audio(s_files[s_tmp[s_path[r]]])]
                  /\ s_pc' = [s_pc EXCEPT ![r] = IF model_raises THEN "failed"
                                                 ELSE "transcribed"]
             ELSE /\ model_raises
                  /\ s_heard' = [s_heard EXCEPT ![r] = NoAudio]
                  /\ s_pc' = [s_pc EXCEPT ![r] = "failed"]
    /\ UNCHANGED <<s_path, s_f, s_content, s_response, s_tmp, s_files, s_loop>>
    /\ UNCHANGED <<wvars, bvars, rvars, tvars, pvars, cvars>>

\* return TranscriptionResponse(...), or raise HTTPException(500) in the
\* handler of the exception; the finally block runs before the response
Respond ==
    /\ \E r \in Requests :
          /\ s_loop = r
          /\ s_pc[r] \in {"transcribed", "failed"}
          /\ s_tmp' = Cleanup(s_tmp, s_path[r])
          /\ s_response' = [s_response EXCEPT ![r] = IF s_pc[r] = "transcribed" THEN 200
                                                     ELSE 500]
          /\ s_pc' = [s_pc EXCEPT ![r] = "responded"]
    /\ s_loop' = 0
    /\ UNCHANGED <<s_path, s_f, s_content, s_heard, s_files>>
    /\ UNCHANGED <<wvars, bvars, rvars, tvars, pvars, cvars>>

(***************************************************************************)
(* Specifications                                                          *)
(***************************************************************************)
Init == PipelineIdle /\ WERIdle /\ BaselineIdle /\ RerankIdle /\ BatchIdle /\ CallIdle /\ WhisperIdle

Next ==
    \/ ProcessVideo
    \/ ExtractAudio
    \/ TranscribeAudio
    \/ ExtractClaims
    \/ RetrieveEvidence
    \/ VerifyClaims
    \/ SaveResultsToDb

Spec == Init /\ [][Next]_vars

InitWER == WERIdle /\ BaselineIdle /\ RerankIdle /\ BatchIdle /\ PipelineIdle /\ CallIdle /\ WhisperIdle

NextWER == WERInput \/ CalculateWER

SpecWER == InitWER /\ [][NextWER]_vars

InitBaseline == BaselineIdle /\ WERIdle /\ RerankIdle /\ BatchIdle /\ PipelineIdle /\ CallIdle /\ WhisperIdle

NextBaseline == BaselineInput \/ VerifyClaimBaseline

SpecBaseline == InitBaseline /\ [][NextBaseline]_vars

InitRerank == RerankIdle /\ WERIdle /\ BaselineIdle /\ BatchIdle /\ PipelineIdle /\ CallIdle /\ WhisperIdle

NextRerank == RerankInput \/ RerankEvidence

SpecRerank == InitRerank /\ [][NextRerank]_vars

InitBatch == BatchIdle /\ WERIdle /\ BaselineIdle /\ RerankIdle /\ PipelineIdle /\ CallIdle /\ WhisperIdle

NextBatch == BatchRetrieveEvidence \/ BatchRerankEvidence \/ BaselineBatchVerifyClaims

SpecBatch == InitBatch /\ [][NextBatch]_vars

NextRetrieve == CallRetrieveEvidence

SpecRetrieve == Init /\ [][NextRetrieve]_vars

NextDomain == CallGetDomainAuthorityScore

SpecDomain == Init /\ [][NextDomain]_vars

NextWERBatch == BatchCalculateWER

SpecWERBatch == Init /\ [][NextWERBatch]_vars

NextEval == CalculateConfusionMatrix \/ CalculateMetrics

SpecEval == Init /\ [][NextEval]_vars

NextGemini == CallGeminiBatchVerifyClaims

SpecGemini == Init /\ [][NextGemini]_vars

NextTop == TopEvidenceInput \/ CallGetTopEvidence

SpecTop == Init /\ [][NextTop]_vars

NextEvalConfidence == EvaluateWithConfidence

SpecEvalConfidence == Init /\ [][NextEvalConfidence]_vars

NextWhisper == OpenTempFile \/ WriteContent \/ Transcribe \/ Respond

SpecWhisper == Init /\ [][NextWhisper]_vars

NextTopDefaults == CallGetTopEvidenceDefaults

SpecTopDefaults == Init /\ [][NextTopDefaults]_vars

(***************************************************************************)
(* Levenshtein distance, defined from edit scripts: the length of a        *)
(* shortest chain of single insertions, deletions and substitutions that   *)
(* leads from r to h.  Only the symbols of r and h and only intermediate   *)
(* sequences no longer than the longer of the two are considered: a        *)
(* shortest script needs no others.                                        *)
(***************************************************************************)
RemoveAt(s, i) == SubSeq(s, 1, i - 1) \o SubSeq(s, i + 1, Len(s))

InsertAt(s, i, a) == SubSeq(s, 1, i - 1) \o <<a>> \o SubSeq(s, i, Len(s))

OneEdit(s, A, maxlen) ==
    {RemoveAt(s, i) : i \in 1..Len(s)}
    \cup {[s EXCEPT ![i] = a] : i \in 1..Len(s), a \in A}
    \cup (IF Len(s) < maxlen
          THEN {InsertAt(s, i, a) : i \in 1..(Len(s) + 1), a \in A}
          ELSE {})

RECURSIVE ScriptLength(_, _, _, _, _)
ScriptLength(reached, h, A, maxlen, k) ==
    IF h \in reached THEN k
    ELSE ScriptLength(reached \cup UNION {OneEdit(s, A, maxlen) : s \in reached},
                      h, A, maxlen, k + 1)

Levenshtein(r, h) ==
    ScriptLength({r}, h, Range(r) \cup Range(h), Max2(Len(r), Len(h)), 0)

(***************************************************************************)
(* Claims about WERCalculator                                              *)
(***************************************************************************)
RefWords == split(reference)

HypWords == split(hypothesis)

\* C9: calculate_wer returns min(100, 100 * edit_distance / max(1, number of
\* reference words)); the result lies in [0, 100], is 0 when neither text has
\* a word and 100 when only the hypothesis has words.
C9_WerFormula ==
    wer_pc = "done" =>
        /\ RatEq(wer, RatMin(Rat(100, 1),
                             Rat(100 * distance, Max2(1, Len(RefWords)))))
        /\ RatLe(Rat(0, 1), wer) /\ RatLe(wer, Rat(100, 1))
        /\ (Len(RefWords) = 0 /\ Len(HypWords) = 0 => RatEq(wer, Rat(0, 1)))
        /\ (Len(RefWords) = 0 /\ Len(HypWords) >= 1 => RatEq(wer, Rat(100, 1)))

\* an empty reference against a hypothesis with words, and a capped result
C9_Witness ==
    /\ wer_pc = "done"
    /\ Len(RefWords) = 0
    /\ Len(HypWords) >= 2
    /\ RatEq(wer, Rat(100, 1))

\* C10: _edit_distance is the Levenshtein distance: 0 exactly for equal
\* sequences (so WER(x, x) = 0), len(r) against an empty hypothesis
\* (distance 3 and WER 100 for 'a b c' against '').
C10_EditDistanceIsLevenshtein ==
    wer_pc = "done" =>
        /\ distance = Levenshtein(RefWords, HypWords)
        /\ (distance = 0 <=> RefWords = HypWords)
        /\ (reference = hypothesis => RatEq(wer, Rat(0, 1)))
        /\ (HypWords = <<>> => distance = Len(RefWords))
        /\ (reference = <<"a", " ", "b", " ", "c">> /\ hypothesis = <<>>
                => distance = 3 /\ RatEq(wer, Rat(100, 1)))

C10_Witness ==
    /\ wer_pc = "done"
    /\ reference = <<"a", " ", "b", " ", "c">>
    /\ hypothesis = <<>>
    /\ distance = 3

(***************************************************************************)
(* Claims about BaselineModel                                              *)
(***************************************************************************)
Labels == {"true", "false", "uncertain"}

\* whole-word occurrences of a keyword: the places where the text carries the
\* keyword with no word character directly before or after it
WholeWordCount(text, keyword) ==
    Cardinality({i \in 1..Len(text) :
        /\ HasAt(text, keyword, i)
        /\ ~WordAt(text, i - 1)
        /\ ~WordAt(text, i + Len(keyword))})

WholeWordTotal(text, keywords) ==
    SumOver(keywords, [kw \in keywords |-> WholeWordCount(text, kw)])

CombinedLower == lower(b_claim \o <<" ">> \o b_evidence)

CountT == WholeWordTotal(CombinedLower, TRUE_KEYWORDS)

CountF == WholeWordTotal(CombinedLower, FALSE_KEYWORDS)

CountU == WholeWordTotal(CombinedLower, UNCERTAIN_KEYWORDS)

\* C7: verify_claim returns a label in {true, false, uncertain} and a
\* confidence in [0, 1], for every claim text and evidence text.
C7_LabelAndConfidenceRange ==
    b_pc = "done" =>
        /\ b_result.label \in Labels
        /\ RatLe(Rat(0, 1), b_result.confidence)
        /\ RatLe(b_result.confidence, Rat(1, 1))

\* two false-indicating keywords against none of the others: the quotient 2/1
\* is capped
C7_Witness ==
    /\ b_pc = "done"
    /\ b_result.label = "false"
    /\ b_result.reasoning = <<"false-indicating", 2, 0>>
    /\ RatEq(b_result.confidence, Rat(1, 1))

\* C8: with (t, f, u) the whole-word keyword counts of the lowercased
\* claim + evidence: f > t and f > u gives false with min(f/(t+u+1), 1);
\* else t > f and t > u gives true with min(t/(f+u+1), 1); every other case
\* gives uncertain with 0.5.  'official' inside 'officials' is not counted.
C8_DecisionRule ==
    b_pc = "done" =>
        /\ IF CountF > CountT /\ CountF > CountU
           THEN /\ b_result.label = "false"
                /\ RatEq(b_result.confidence,
                         RatMin(Rat(CountF, CountT + CountU + 1), Rat(1, 1)))
           ELSE IF CountT > CountF /\ CountT > CountU
           THEN /\ b_result.label = "true"
                /\ RatEq(b_result.confidence,
                         RatMin(Rat(CountT, CountF + CountU + 1), Rat(1, 1)))
           ELSE /\ b_result.label = "uncertain"
                /\ RatEq(b_result.confidence, Rat(1, 2))
        /\ (b_claim = ScenarioHoax /\ b_evidence = ScenarioOfficials
               => /\ CountT = 1 /\ CountF = 2 /\ CountU = 0
                  /\ b_result.label = "false"
                  /\ RatEq(b_result.confidence, Rat(1, 1)))
        /\ (b_claim = ScenarioConfirmed /\ b_evidence = <<>>
               => /\ CountT = 1 /\ CountF = 0 /\ CountU = 0
                  /\ b_result.label = "true"
                  /\ RatEq(b_result.confidence, Rat(1, 1)))

\* the scenario in which 'officials' must not count as 'official'
C8_Witness ==
    /\ b_pc = "done"
    /\ b_claim = ScenarioHoax
    /\ b_evidence = ScenarioOfficials
    /\ b_result.label = "false"

(***************************************************************************)
(* Claims about EvidenceReranker                                           *)
(***************************************************************************)
Perms(n) == {f \in [1..n -> 1..n] : \A i, j \in 1..n : i # j => f[i] # f[j]}

\* the evidence dictionary a RankedEvidence was made from
ItemOf(e) == [title |-> e.title, url |-> e.url, snippet |-> e.snippet]

\* C6: rerank_evidence returns a permutation of the N input items, sorted by
\* non-increasing relevance_score, items of equal score in their input order,
\* and the item at position i has rank i (ranks are exactly 1..N).
C6_StableDescendingRanks ==
    r_pc = "done" =>
        /\ Len(r_ranked) = Len(r_evidence)
        /\ \E pi \in Perms(Len(r_evidence)) :
              /\ \A i \in 1..Len(r_ranked) : ItemOf(r_ranked[i]) = r_evidence[pi[i]]
              /\ \A i, j \in 1..Len(r_ranked) :
                    (i < j /\ r_ranked[i].relevance_score = r_ranked[j].relevance_score)
                        => pi[i] < pi[j]
        /\ \A i, j \in 1..Len(r_ranked) :
              i < j => FltLe(r_ranked[j].relevance_score, r_ranked[i].relevance_score)
        /\ \A i \in 1..Len(r_ranked) : r_ranked[i].rank = i
        /\ {r_ranked[i].rank : i \in 1..Len(r_ranked)} = 1..Len(r_evidence)

\* three items, two different ones with the same score, and the first input
\* item is not the best one
C6_Witness ==
    /\ r_pc = "done"
    /\ Len(r_ranked) = 3
    /\ \E i, j \in 1..3 :
          /\ i < j
          /\ r_ranked[i].relevance_score = r_ranked[j].relevance_score
          /\ r_ranked[i].title # r_ranked[j].title
    /\ ItemOf(r_ranked[1]) # r_evidence[1]
    /\ FltLt(r_ranked[3].relevance_score, r_ranked[1].relevance_score)

(***************************************************************************)
(* Claims about the batch operations                                       *)
(***************************************************************************)
\* the number of input items of the batch call
BatchItemCount ==
    IF t_op = "batch_rerank_evidence" THEN Len(t_input.claims_evidence)
    ELSE Len(t_input.claims)

\* the number of results the batch call returned (entries, for a dict)
BatchResultCount ==
    IF t_op = "batch_rerank_evidence" THEN Cardinality(DOMAIN t_output)
    ELSE Len(t_output)

Upto(n) == [i \in 1..n |-> i]

\* C5 as stated: for every input list each batch operation returns exactly
\* one result per input item, and every item is processed.
C5_OneResultPerInputItem ==
    t_op # "none" =>
        /\ BatchResultCount = BatchItemCount
        /\ t_called = Upto(BatchItemCount)

\* the number of (claim, evidence) pairs batch_verify_claims iterates over
ZippedCount ==
    IF t_input.evidence_list.given
    THEN Min2(Len(t_input.claims), Len(t_input.evidence_list.list))
    ELSE Len(t_input.claims)

\* the last pair of the input that carries the claim text c
LastPairOf(c) ==
    CHOOSE i \in 1..Len(t_input.claims_evidence) :
        /\ t_input.claims_evidence[i][1] = c
        /\ \A j \in 1..Len(t_input.claims_evidence) :
              t_input.claims_evidence[j][1] = c => j <= i

\* C5 (amended): batch_retrieve_evidence returns one bundle per input claim,
\* in order; batch_rerank_evidence returns one entry per distinct claim text,
\* that of the last pair with this text (one per pair when the texts differ);
\* batch_verify_claims returns one verification per zipped (claim, evidence)
\* pair, one per claim when evidence_list is absent or not shorter.  A failing
\* item yields its placeholder and every later item is still processed.
C5_BatchIsolation ==
    /\ t_op = "batch_retrieve_evidence" =>
          /\ Len(t_output) = Len(t_input.claims)
          /\ t_called = Upto(Len(t_input.claims))
          /\ \A i \in 1..Len(t_output) :
                /\ t_output[i].claim = t_input.claims[i]
                /\ t_raises[i] =>
                      /\ "error" \in DOMAIN t_output[i]
                      /\ t_output[i].search_results = <<>>
                      /\ t_output[i].evidence_text = <<>>
                      /\ t_output[i].sources = <<>>
                /\ ~t_raises[i] =>
                      /\ "error" \notin DOMAIN t_output[i]
                      /\ t_input.answers[i].status = "ok" =>
                            Len(t_output[i].search_results) = Len(t_input.answers[i].items)
    /\ t_op = "batch_rerank_evidence" =>
          /\ DOMAIN t_output = {t_input.claims_evidence[i][1] :
                                    i \in 1..Len(t_input.claims_evidence)}
          /\ t_called = Upto(Len(t_input.claims_evidence))
          /\ \A c \in DOMAIN t_output :
                IF t_raises[LastPairOf(c)] THEN t_output[c] = <<>>
                ELSE /\ Len(t_output[c]) = Len(t_input.claims_evidence[LastPairOf(c)][2])
                     /\ {ItemOf(e) : e \in Range(t_output[c])}
                            = Range(t_input.claims_evidence[LastPairOf(c)][2])
          /\ (\A i, j \in 1..Len(t_input.claims_evidence) :
                 i # j => t_input.claims_evidence[i][1] # t_input.claims_evidence[j][1])
                => Cardinality(DOMAIN t_output) = Len(t_input.claims_evidence)
    /\ t_op = "batch_verify_claims" =>
          /\ Len(t_output) = ZippedCount
          /\ t_called = Upto(ZippedCount)
          /\ (~t_input.evidence_list.given
                \/ Len(t_input.evidence_list.list) >= Len(t_input.claims))
                => Len(t_output) = Len(t_input.claims)
          /\ \A i \in 1..Len(t_output) :
                /\ t_output[i].claim = t_input.claims[i]
                /\ t_raises[i] =>
                      /\ t_output[i].label = "uncertain"
                      /\ RatEq(t_output[i].confidence, Rat(0, 1))
                      /\ t_output[i].reasoning[1] = "Error"
                /\ ~t_raises[i] =>
                      t_output[i] = verify_claim(t_input.claims[i],
                                        IF t_input.evidence_list.given
                                        THEN t_input.evidence_list.list[i] ELSE <<>>)

\* three pairs, the first and the third with the same claim text; the second
\* fails, the third is still reranked and its result replaces that of the first
C5_Witness ==
    /\ t_op = "batch_rerank_evidence"
    /\ Len(t_input.claims_evidence) = 3
    /\ t_input.claims_evidence[1][1] = t_input.claims_evidence[3][1]
    /\ t_input.claims_evidence[2][1] # t_input.claims_evidence[3][1]
    /\ t_raises = <<FALSE, TRUE, FALSE>>
    /\ t_input.claims_evidence[1][2] = <<>>
    /\ Len(t_output[t_input.claims_evidence[3][1]]) = 2
    /\ t_output[t_input.claims_evidence[2][1]] = <<>>
    /\ t_called = <<1, 2, 3>>


(***************************************************************************)
(* Claims about ClaimVerificationPipeline.process_video                    *)
(***************************************************************************)
\* the stage was invoked in this run
Invoked(stage) == stage \in Range(p_calls)

\* the stage invoked last
LastInvoked == p_calls[Len(p_calls)]

HasError == "error" \in DOMAIN results

\* C1 as stated: whenever the collaborator call of a stage (audio extraction,
\* transcription, claim extraction, evidence retrieval, verification) has
\* failed, the run has ended with status failed and an error recorded, and
\* the failed stage is the last one invoked.
C1_AnyStageFailureFailsRun ==
    p_failed # {} =>
        /\ p_pc = "returned"
        /\ results.status = "failed"
        /\ HasError
        /\ LastInvoked \in p_failed

\* C1 amended: a failed audio extraction or transcription ends the run with
\* status failed, the stage's message in error and no later stage invoked.  A
\* failed claim extraction, evidence retrieval or verification is caught in
\* the stage, which yields an empty result: claim extraction ends the run as
\* completed with no claims and no later stage; after a failed retrieval
\* verification is still invoked, with empty evidence; after a failed
\* verification persistence is still invoked when save_to_db is set; these
\* runs end completed with no error recorded.
C1_StageFailureOutcome ==
    /\ "extract_audio" \in p_failed =>
          /\ p_pc = "returned"
          /\ results.status = "failed"
          /\ HasError /\ results.error = "Audio extraction failed"
          /\ p_calls = <<"extract_audio">>
    /\ "transcribe_audio" \in p_failed =>
          /\ p_pc = "returned"
          /\ results.status = "failed"
          /\ HasError /\ results.error = "Transcription failed"
          /\ p_calls = <<"extract_audio", "transcribe_audio">>
    /\ "extract_claims" \in p_failed =>
          /\ p_pc = "returned"
          /\ results.status = "completed"
          /\ ~HasError
          /\ results.claims = <<>>
          /\ p_calls = <<"extract_audio", "transcribe_audio", "extract_claims">>
    /\ "retrieve_evidence" \in p_failed =>
          /\ results.evidence = EmptyDict
          /\ p_pc = "returned" =>
                /\ results.status = "completed"
                /\ ~HasError
                /\ Invoked("verify_claims")
                /\ Len(gemini_calls) >= 1
                /\ \A i \in 1..Len(gemini_calls) : gemini_calls[i].evidence = <<>>
    /\ "verify_claims" \in p_failed =>
          /\ results.verifications = <<>>
          /\ p_pc = "returned" =>
                /\ results.status = "completed"
                /\ ~HasError
                /\ save_to_db => LastInvoked = "save_results_to_db"

\* a run in which verification failed and persistence was invoked after it,
\* and which ended completed
C1_Witness ==
    /\ p_pc = "returned"
    /\ "verify_claims" \in p_failed
    /\ LastInvoked = "save_results_to_db"
    /\ results.status = "completed"

\* C2: when audio extraction gave no path, or transcription an empty or absent
\* transcript, the run has returned status failed with the reason in error,
\* and claim extraction, evidence retrieval, verification and persistence
\* were not invoked.
C2_NoAudioOrTranscriptFails ==
    (\/ Invoked("extract_audio") /\ audio_path = None
     \/ Invoked("transcribe_audio") /\ transcript \in {None, ""}) =>
        /\ p_pc = "returned"
        /\ results.status = "failed"
        /\ HasError
        /\ results.error = IF audio_path = None THEN "Audio extraction failed"
                           ELSE "Transcription failed"
        /\ ~Invoked("extract_claims")
        /\ ~Invoked("retrieve_evidence")
        /\ ~Invoked("verify_claims")
        /\ ~Invoked("save_results_to_db")
        /\ gemini_calls = <<>>
        /\ db.ops = <<>>

\* a run that ended on an empty transcript returned by the service
C2_Witness ==
    /\ p_pc = "returned"
    /\ audio_path # None
    /\ transcript = ""
    /\ "transcribe_audio" \notin p_failed
    /\ results.status = "failed"

\* C3: when claim extraction yielded no claims, the run has returned status
\* completed with empty claims, evidence and verifications, and evidence
\* retrieval, verification and persistence were not invoked, whatever
\* save_to_db is.
C3_NoClaimsCompletes ==
    (Invoked("extract_claims") /\ claims_data = <<>>) =>
        /\ p_pc = "returned"
        /\ results.status = "completed"
        /\ results.claims = <<>>
        /\ results.evidence = EmptyDict
        /\ results.verifications = <<>>
        /\ ~Invoked("retrieve_evidence")
        /\ ~Invoked("verify_claims")
        /\ ~Invoked("save_results_to_db")
        /\ gemini_calls = <<>>
        /\ db.ops = <<>>

\* a run with save_to_db set in which the model extracted no claims
C3_Witness ==
    /\ p_pc = "returned"
    /\ save_to_db
    /\ Invoked("extract_claims")
    /\ "extract_claims" \notin p_failed
    /\ claims_data = <<>>
    /\ results.status = "completed"

\* C4: when a storage call failed during persistence, the run returns what it
\* returns when persistence succeeds: status completed, the claims and the
\* verifications computed before persistence, and no error.
C4_StorageFailureKeepsResult ==
    (p_pc = "returned" /\ db.failed) =>
        /\ save_to_db
        /\ results.status = "completed"
        /\ ~HasError
        /\ results.claims = claims_data
        /\ results.verifications = verifications
        /\ results = Completed([InitialResults(results.video_id) EXCEPT
                                   !.transcript = transcript,
                                   !.claims = claims_data,
                                   !.evidence = evidence_dict,
                                   !.verifications = verifications], clock)

\* a run in which a claim row was written and a later storage call failed
C4_Witness ==
    /\ p_pc = "returned"
    /\ db.failed
    /\ db.claim_rows # <<>>
    /\ Len(db.ops) > Len(db.claim_rows) + Len(db.verification_rows)
    /\ results.verifications # <<>>


(***************************************************************************)
(* Claims about BatchEvaluator                                             *)
(***************************************************************************)
\* the number of (ground truth, prediction) pairs: the items zip yields
PairCount == Min2(Len(c_args.ground_truth), Len(c_args.predictions))

\* the paired items with ground truth g and prediction p
PairsOf(g, p) ==
    {i \in 1..PairCount : c_args.ground_truth[i] = g /\ c_args.predictions[i] = p}

\* the labels occurring in either list
LabelsOccurring ==
    {c_args.ground_truth[i] : i \in 1..Len(c_args.ground_truth)}
        \cup {c_args.predictions[i] : i \in 1..Len(c_args.predictions)}

\* C11: the row keys and the column keys of the confusion matrix are exactly
\* the labels occurring in either list, matrix[g][p] is the number of paired
\* items with ground truth g and prediction p, and the cells sum to the number
\* of paired items.
C11_ConfusionMatrix ==
    c_op = "calculate_confusion_matrix" =>
        LET matrix == c_out.value
        IN  /\ ~c_out.raised
            /\ DOMAIN matrix = LabelsOccurring
            /\ \A g \in DOMAIN matrix :
                  /\ DOMAIN matrix[g] = LabelsOccurring
                  /\ \A q \in DOMAIN matrix[g] : matrix[g][q] = Cardinality(PairsOf(g, q))
            /\ SumInt(DOMAIN matrix,
                      [g \in DOMAIN matrix |-> SumInt(DOMAIN matrix[g], matrix[g])])
                 = PairCount

\* a matrix of three labels, one of them never predicted, with a cell of 2
C11_Witness ==
    /\ c_op = "calculate_confusion_matrix"
    /\ Cardinality(DOMAIN c_out.value) = 3
    /\ PairCount = MaxItems
    /\ \E g \in DOMAIN c_out.value :
          /\ \E q \in DOMAIN c_out.value : q # g /\ c_out.value[g][q] = 2
          /\ \A i \in 1..Len(c_args.predictions) : c_args.predictions[i] # g

\* the denominators of calculate_metrics, from the argument lists
TruthCount(l) == Cardinality({i \in 1..PairCount : c_args.ground_truth[i] = l})

PredictedCount(l) == Cardinality({i \in 1..PairCount : c_args.predictions[i] = l})

\* C12 as stated: on lists of equal length, the empty lists included,
\* calculate_metrics returns, and every precision, recall, F1, macro average
\* and accuracy whose denominator is zero is 0.
C12_ZeroDenominatorsGiveZero ==
    (c_op = "calculate_metrics"
        /\ Len(c_args.ground_truth) = Len(c_args.predictions)) =>
        /\ ~c_out.raised
        /\ LET m == c_out.value
           IN  /\ \A l \in DOMAIN m.per_label_metrics :
                     LET pl == m.per_label_metrics[l]
                     IN  /\ PredictedCount(l) = 0 => pl.precision = Rat(0, 1)
                         /\ TruthCount(l) = 0 => pl.recall = Rat(0, 1)
                         /\ RatEq(RatAdd(pl.precision, pl.recall), Rat(0, 1))
                               => pl.f1_score = Rat(0, 1)
               /\ LabelsOccurring = {} => m.precision = Rat(0, 1) /\ m.recall = Rat(0, 1)
               /\ RatEq(RatAdd(m.precision, m.recall), Rat(0, 1)) => m.f1_score = Rat(0, 1)
               /\ Len(c_args.ground_truth) = 0 => m.accuracy = Rat(0, 1)

\* C13: macro precision and macro recall are the means of the per-label
\* values over the labels of the matrix, macro-F1 is the harmonic mean of
\* these two (0 when both are 0), accuracy is correct / total; when the
\* predictions equal a non-empty ground truth, macro-F1 and accuracy are 1.
C13_MacroAverages ==
    (c_op = "calculate_metrics" /\ ~c_out.raised) =>
        LET m == c_out.value
            labels == DOMAIN m.confusion_matrix
            n == Cardinality(labels)
            total == Len(c_args.ground_truth)
            correct == Cardinality({i \in 1..total :
                                       c_args.ground_truth[i] = c_args.predictions[i]})
            sum_p == SumRat(labels, [l \in labels |-> m.per_label_metrics[l].precision])
            sum_r == SumRat(labels, [l \in labels |-> m.per_label_metrics[l].recall])
            pr == RatAdd(m.precision, m.recall)
        IN  /\ DOMAIN m.per_label_metrics = labels
            /\ \A l \in labels :
                  /\ PredictedCount(l) > 0 =>
                        RatEq(m.per_label_metrics[l].precision,
                              Rat(Cardinality(PairsOf(l, l)), PredictedCount(l)))
                  /\ TruthCount(l) > 0 =>
                        RatEq(m.per_label_metrics[l].recall,
                              Rat(Cardinality(PairsOf(l, l)), TruthCount(l)))
            /\ RatEq(RatMul(m.precision, Rat(n, 1)), sum_p)
            /\ RatEq(RatMul(m.recall, Rat(n, 1)), sum_r)
            /\ RatEq(RatMul(m.f1_score, pr),
                     RatMul(Rat(2, 1), RatMul(m.precision, m.recall)))
            /\ RatEq(pr, Rat(0, 1)) => RatEq(m.f1_score, Rat(0, 1))
            /\ RatEq(RatMul(m.accuracy, Rat(total, 1)), Rat(correct, 1))
            /\ (total > 0 /\ c_args.ground_truth = c_args.predictions) =>
                  /\ RatEq(m.f1_score, Rat(1, 1))
                  /\ RatEq(m.accuracy, Rat(1, 1))

\* metrics whose macro-F1 differs from the mean of the per-label F1 values
C13_Witness ==
    /\ c_op = "calculate_metrics"
    /\ ~c_out.raised
    /\ LET m == c_out.value
           labels == DOMAIN m.confusion_matrix
       IN  /\ Cardinality(labels) = 3
           /\ ~RatEq(RatMul(m.f1_score, Rat(Cardinality(labels), 1)),
                     SumRat(labels, [l \in labels |-> m.per_label_metrics[l].f1_score]))
           /\ ~RatEq(m.precision, m.recall)


(***************************************************************************)
(* Claims about EvidenceRetriever.retrieve_evidence                        *)
(***************************************************************************)
\* the hits the search returned for the call: the items of the provider's
\* answer cut by the slice [:num_results], none when the request failed
Hits ==
    IF c_args.answer.status = "error" THEN <<>>
    ELSE Prefix(c_args.answer.items, c_args.num_results)

\* the positions among the top hits that contribute an entry to evidence_text:
\* all of them, and with extract_full_text those whose page has a text
Contributing(k) ==
    {i \in 1..k : c_args.extract_full_text => PageText(Hits[i].link) # <<>>}

\* the i-th smallest element of a set of positions
RECURSIVE Nth(_, _)
Nth(S, i) ==
    LET least == CHOOSE x \in S : \A y \in S : x <= y
    IN  IF i = 1 THEN least ELSE Nth(S \ {least}, i - 1)

\* C14: with n hits the call returns a bundle whose search_results are the
\* hits in provider order with rank i and relevance 1/i, whose sources are
\* the first min(3, n) of them, and whose evidence_text is built from these
\* same hits, in order (title and snippet, or title and page text for the
\* hits whose page has one); with no hit it returns the empty bundle, without
\* an error entry.
C14_TopThreeSources ==
    c_op = "retrieve_evidence" =>
        LET bundle == c_out.value
            n == Len(Hits)
            k == Min2(3, n)
        IN  /\ ~c_out.raised
            /\ bundle.claim = c_args.claim
            /\ "error" \notin DOMAIN bundle
            /\ Len(bundle.search_results) = n
            /\ \A i \in 1..n :
                  /\ bundle.search_results[i].rank = i
                  /\ RatEq(bundle.search_results[i].relevance_score, Rat(1, i))
                  /\ bundle.search_results[i].url = Hits[i].link
            /\ Len(bundle.sources) = k
            /\ \A i \in 1..k :
                  bundle.sources[i] = [title |-> Hits[i].title, url |-> Hits[i].link,
                                       snippet |-> Hits[i].snippet, rank |-> i]
            /\ Len(bundle.evidence_text) = Cardinality(Contributing(k))
            /\ \A j \in 1..Len(bundle.evidence_text) :
                  LET i == Nth(Contributing(k), j)
                  IN  bundle.evidence_text[j] =
                         [source |-> Hits[i].title,
                          text |-> IF c_args.extract_full_text THEN PageText(Hits[i].link)
                                   ELSE Hits[i].snippet]
            /\ n = 0 => bundle = [claim |-> c_args.claim, search_results |-> <<>>,
                                  evidence_text |-> <<>>, sources |-> <<>>]

\* a call with more than three hits, of which the first three are the sources
C14_Witness ==
    /\ c_op = "retrieve_evidence"
    /\ Len(c_out.value.search_results) = MaxHits
    /\ Len(c_out.value.sources) = 3
    /\ Len(c_out.value.evidence_text) = 3
    /\ c_out.value.sources[3].rank = 3


(***************************************************************************)
(* Claims about EvidenceReranker.get_domain_authority_score                *)
(***************************************************************************)
\* s without the prefix pre, when it starts with it
StripLeading(s, pre) ==
    IF HasAt(s, pre, 1) THEN SubSeq(s, Len(pre) + 1, Len(s)) ELSE s

\* the host of the URL: the scheme, a leading 'www.' and everything from the
\* first '/' are stripped
HostOf(url) ==
    LET no_scheme == StripLeading(StripLeading(url, <<"h", "t", "t", "p", "s", ":", "/", "/">>),
                                  <<"h", "t", "t", "p", ":", "/", "/">>)
    IN  BeforeFirst(StripLeading(no_scheme, <<"w", "w", "w", ".">>), "/", 1)

TableEntries == 1..Len(DOMAIN_AUTHORITY)

\* C15 as stated: the score is that of the table domain equal to the host;
\* otherwise 0.9 times the score of a table domain the host contains;
\* otherwise 0.5.
C15_DomainScoreOfHost ==
    c_op = "get_domain_authority_score" =>
        LET host == HostOf(c_args.url)
            score == c_out.value.score
            exact == {k \in TableEntries : DOMAIN_AUTHORITY[k].domain = host}
            partial == {k \in TableEntries : Contains(host, DOMAIN_AUTHORITY[k].domain)}
        IN  IF exact # {}
            THEN \E k \in exact : score = DOMAIN_AUTHORITY[k].score
            ELSE IF partial # {}
            THEN \E k \in partial :
                    score = FltMul(DOMAIN_AUTHORITY[k].score, Flt(9, 10))
            ELSE score = Flt(1, 2)


(***************************************************************************)
(* Claims about WERCalculator.batch_calculate_wer                          *)
(***************************************************************************)
\* C16: on lists of equal length the call returns the WER of every pair, in
\* input order, and their arithmetic mean (0 and the empty list for empty
\* lists); on lists of different lengths it raises ValueError and
\* calculate_wer is called for no pair.
C16_BatchWer ==
    c_op = "batch_calculate_wer" =>
        LET refs == c_args.references
            hyps == c_args.hypotheses
        IN  IF Len(refs) = Len(hyps)
            THEN /\ ~c_out.raised
                 /\ Len(c_out.value.wers) = Len(refs)
                 /\ \A i \in 1..Len(refs) :
                       c_out.value.wers[i] = calculate_wer(refs[i], hyps[i])
                 /\ RatEq(RatMul(c_out.value.avg_wer, Rat(Len(refs), 1)),
                          SumSeqRat([i \in 1..Len(refs) |-> calculate_wer(refs[i], hyps[i])]))
                 /\ Len(refs) = 0 =>
                       c_out.value = [avg_wer |-> Rat(0, 1), wers |-> <<>>]
            ELSE /\ c_out.raised
                 /\ c_out.exception = "ValueError"
                 /\ c_out.calls = <<>>

\* two pairs with different WERs, whose mean is neither of them
C16_Witness ==
    /\ c_op = "batch_calculate_wer"
    /\ ~c_out.raised
    /\ Len(c_out.value.wers) = MaxPairs
    /\ ~RatEq(c_out.value.wers[1], c_out.value.wers[2])
    /\ ~RatEq(c_out.value.avg_wer, c_out.value.wers[1])
    /\ RatLt(Rat(0, 1), c_out.value.wers[1])


(***************************************************************************)
(* Claims about the order of the stages of process_video                   *)
(***************************************************************************)
\* s is an initial part of t
IsPrefix(s, t) == Len(s) <= Len(t) /\ \A i \in 1..Len(s) : s[i] = t[i]

\* the stages after audio extraction, in the order the claim gives them
ClaimedStageOrder ==
    <<"transcribe_audio", "extract_claims", "retrieve_evidence", "rerank_evidence",
      "verify_claims", "save_results_to_db">>

\* the stages process_video invokes, in its order
StageOrder ==
    <<"extract_audio", "transcribe_audio", "extract_claims", "retrieve_evidence",
      "verify_claims", "save_results_to_db">>

NotAudio(stage) == stage # "extract_audio"

\* C17 as stated: in a run that has reached verification the stages were
\* invoked in the order Transcribe, ExtractClaims, RetrieveEvidence,
\* RerankEvidence, Verify, Persist, each at most once; in particular the
\* EvidenceReranker has run before verification.
C17_StagesInOrderWithRerank ==
    Invoked("verify_claims") =>
        /\ IsPrefix(SelectSeq(p_calls, NotAudio), ClaimedStageOrder)
        /\ r_pc = "done"

\* C17 amended: the stages are invoked in the order audio extraction,
\* Transcribe, ExtractClaims, RetrieveEvidence (which builds the evidence
\* map), Verify, Persist, each at most once and each after the previous one
\* has returned; the EvidenceReranker is not invoked, and every claim is
\* verified against the evidence text as retrieved.
C17_StagesInOrder ==
    /\ IsPrefix(p_calls, StageOrder)
    /\ r_pc = "idle" /\ r_ranked = <<>> /\ t_op = "none"
    /\ p_pc \notin {"idle", "returned"} => p_pc = StageOrder[Len(p_calls) + 1]
    /\ \A i \in 1..Len(gemini_calls) :
          gemini_calls[i].evidence =
              EvidenceField(results.evidence, gemini_calls[i].claim, "evidence_text")

\* a run through all stages, in which two claims were verified against
\* evidence of several hits
C17_Witness ==
    /\ p_pc = "returned"
    /\ p_calls = StageOrder
    /\ Len(gemini_calls) = MaxClaims
    /\ \A i \in 1..Len(gemini_calls) : Len(gemini_calls[i].evidence) = 3
    /\ r_pc = "idle"


(***************************************************************************)
(* Claims about verification and persistence in process_video              *)
(***************************************************************************)
\* C18: when no verification call failed, the verifications returned are one
\* per extracted claim, in claim order: the i-th is what the model answered
\* for the i-th claim and the evidence_text of the evidence-map entry keyed by
\* the claim's text (the empty text without such an entry), and carries the
\* sources of that entry.
C18_OneVerificationPerClaim ==
    (p_pc = "returned" /\ Invoked("verify_claims") /\ "verify_claims" \notin p_failed) =>
        /\ Len(results.verifications) = Len(results.claims)
        /\ Len(gemini_calls) = Len(results.claims)
        /\ \A i \in 1..Len(results.claims) :
              LET text == results.claims[i].text
                  v == results.verifications[i]
                  call == gemini_calls[i]
                  has_entry == text \in DOMAIN results.evidence
              IN  /\ v.claim = text
                  /\ call.claim = text
                  /\ call.evidence = IF has_entry THEN results.evidence[text].evidence_text
                                     ELSE <<>>
                  /\ ~call.outcome.raised
                  /\ v.label = call.outcome.value.label
                  /\ v.confidence = call.outcome.value.confidence
                  /\ v.explanation = call.outcome.value.explanation
                  /\ v.citations = call.outcome.value.citations
                  /\ v.sources = IF has_entry THEN results.evidence[text].sources ELSE <<>>

\* two different claims verified with different verdicts, the second against
\* three sources, the first against none
C18_Witness ==
    /\ p_pc = "returned"
    /\ Len(results.verifications) = 2
    /\ results.verifications[1].claim # results.verifications[2].claim
    /\ results.verifications[1].label # results.verifications[2].label
    /\ results.verifications[1].sources = <<>>
    /\ Len(results.verifications[2].sources) = 3
    /\ Len(gemini_calls[2].evidence) = 3

IsClaimInsert(op) == op.op = "insert_claim"

IsVerificationInsert(op) == op.op = "insert_verification"

\* the texts of the claim inserts attempted, in order
ClaimInsertTexts ==
    LET ops == SelectSeq(db.ops, IsClaimInsert) IN [i \in 1..Len(ops) |-> ops[i].text]

\* what holds of the rows whatever the storage did: a verification row
\* comes from a verification insert and belongs to a claim row whose insert
\* returned an id, there is at most one per claim row, it is that of the
\* first verification whose claim is literally the text of the claim row,
\* and a claim row whose text matches no verification has none
RowsJoinedByText ==
    /\ \A i \in 1..Len(db.verification_rows) :
          LET row == db.verification_rows[i]
          IN  /\ \E k \in 1..Len(db.ops) :
                    /\ IsVerificationInsert(db.ops[k])
                    /\ db.ops[k].claim_id = row.claim_id
              /\ \E c \in 1..Len(db.claim_rows) :
                    /\ db.claim_rows[c].claim_id = row.claim_id
                    /\ \E j \in 1..Len(results.verifications) :
                          /\ results.verifications[j].claim = db.claim_rows[c].claim_text
                          /\ \A k \in 1..(j - 1) :
                                results.verifications[k].claim # db.claim_rows[c].claim_text
                          /\ row.label = results.verifications[j].label
              /\ \A j \in 1..Len(db.verification_rows) :
                    db.verification_rows[j].claim_id = row.claim_id => j = i
    /\ \A c \in 1..Len(db.claim_rows) :
          (\A j \in 1..Len(results.verifications) :
              results.verifications[j].claim # db.claim_rows[c].claim_text)
          => \A i \in 1..Len(db.verification_rows) :
                db.verification_rows[i].claim_id # db.claim_rows[c].claim_id
    /\ \A k \in 1..Len(db.ops) :
          IsVerificationInsert(db.ops[k]) =>
              /\ k > 1 /\ IsClaimInsert(db.ops[k - 1])
              /\ db.ops[k - 1].returned = "id"
              /\ \E c \in 1..Len(db.claim_rows) :
                    /\ db.claim_rows[c].claim_id = db.ops[k].claim_id
                    /\ db.claim_rows[c].claim_text = db.ops[k - 1].text

\* C19 as stated: persistence attempts one claim insert per extracted claim,
\* in claim order, and the rows are joined by literal text match.
C19_OneInsertPerClaim ==
    (p_pc = "returned" /\ Invoked("save_results_to_db")) =>
        /\ ClaimInsertTexts = ClaimTextsOf(results.claims)
        /\ RowsJoinedByText

\* C19 amended: persistence attempts the claim inserts in claim order, one
\* per extracted claim unless a storage call raises; the call that raises is
\* the last one attempted, and the claims after it get no insert.  The rows
\* are joined by literal text match.
C19_InsertsUntilRaise ==
    (p_pc = "returned" /\ Invoked("save_results_to_db")) =>
        /\ IsPrefix(ClaimInsertTexts, ClaimTextsOf(results.claims))
        /\ ~db.raised => ClaimInsertTexts = ClaimTextsOf(results.claims)
        /\ db.raised =>
              /\ db.ops # <<>>
              /\ LET last == db.ops[Len(db.ops)]
                 IN  IF IsClaimInsert(last)
                     THEN last.returned = "raised"
                     ELSE \A i \in 1..Len(db.verification_rows) :
                             db.verification_rows[i].claim_id # last.claim_id
        /\ RowsJoinedByText

\* persistence of two claims in which the verification insert for the first
\* claim raises: its claim row stays without a verification row and the
\* second claim gets no insert
C19_Witness ==
    /\ p_pc = "returned"
    /\ db.raised
    /\ Len(results.claims) = 2
    /\ Len(results.verifications) = 2
    /\ Len(ClaimInsertTexts) = 1
    /\ Len(db.claim_rows) = 1
    /\ db.verification_rows = <<>>
    /\ IsVerificationInsert(db.ops[Len(db.ops)])


(***************************************************************************)
(* Claims about the latency metrics of process_video                       *)
(***************************************************************************)
\* the five stages the claim names
IsMeasuredStage(stage) ==
    stage \in {"extract_audio", "transcribe_audio", "extract_claims", "retrieve_evidence",
               "verify_claims"}

\* the component tag of a stage
ComponentOf(stage) ==
    CASE stage = "extract_audio" -> "audio_extraction"
      [] stage = "transcribe_audio" -> "whisper"
      [] stage = "extract_claims" -> "claim_extraction"
      [] stage = "retrieve_evidence" -> "evidence_retrieval"
      [] stage = "verify_claims" -> "verification"

ComponentsOf(stages) == [i \in 1..Len(stages) |-> ComponentOf(stages[i])]

\* C20 as stated: at every moment the metrics written are one per stage
\* executed so far among audio extraction, transcription, claim extraction,
\* evidence retrieval and verification, in stage order, each tagged with its
\* stage.
C20_OneMetricPerStage ==
    metrics = ComponentsOf(SelectSeq(p_calls, IsMeasuredStage))

\* a stage that writes its latency: not audio extraction, and its
\* collaborator call has returned
WritesLatency(stage) ==
    /\ stage \in {"transcribe_audio", "extract_claims", "retrieve_evidence", "verify_claims"}
    /\ stage \notin p_failed

\* C20 amended: at every moment the metrics written are one per stage
\* executed so far among transcription ("whisper"), claim extraction
\* ("claim_extraction"), evidence retrieval ("evidence_retrieval") and
\* verification ("verification") whose collaborator call returned, in stage
\* order; audio extraction writes none, and a stage whose call raised writes
\* none.
C20_OneMetricPerReturnedStage ==
    metrics = ComponentsOf(SelectSeq(p_calls, WritesLatency))

\* a run through all stages in which evidence retrieval raised: three metrics
C20_Witness ==
    /\ p_pc = "returned"
    /\ p_failed = {"retrieve_evidence"}
    /\ Invoked("verify_claims")
    /\ metrics = <<"whisper", "claim_extraction", "verification">>

(***************************************************************************)
(* Claims about total_time                                                 *)
(***************************************************************************)
\* C21 (as stated): on every return of process_video, completed or failed,
\* total_time is the clock value at the last executed stage minus the clock
\* value at the start.
C21_TotalTimeOnEveryReturn ==
    p_pc = "returned" => results.total_time = clock - pipeline_start

\* C21 (amended): on a return with status completed, total_time is the clock
\* value at the last executed stage minus the clock value at the start; on a
\* return with status failed, total_time is the initial 0.
C21_TotalTimeOnCompletedReturn ==
    p_pc = "returned" =>
        /\ results.status = "completed" => results.total_time = clock - pipeline_start
        /\ results.status = "failed" => results.total_time = 0

\* a run that started after time 0, went through all stages and completed,
\* and a clock that moved since the start
C21_Witness ==
    /\ p_pc = "returned"
    /\ results.status = "completed"
    /\ pipeline_start > 0
    /\ LastInvoked = "verify_claims"
    /\ results.total_time = 5

(***************************************************************************)
(* Claims about GeminiService.batch_verify_claims                          *)
(***************************************************************************)
\* C22: batch_verify_claims returns one result per input pair, in input
\* order: the result list has the length of the input and result i carries
\* the claim of pair i, a failed pair being represented by a placeholder.
C22_OneResultPerPair ==
    c_op = "gemini_batch_verify_claims" =>
        /\ Len(c_out.value) = Len(c_args.claims_with_evidence)
        /\ \A i \in 1..Len(c_out.value) :
              c_out.value[i].claim_text = c_args.claims_with_evidence[i][1]

(***************************************************************************)
(* Claims about EvidenceReranker.get_top_evidence                          *)
(***************************************************************************)
\* the positions of a reranked list whose score reaches min_score
Qualifying(reranked, min_score) ==
    {j \in 1..Len(reranked) : FltLe(min_score, reranked[j].relevance_score)}

\* the i-th of a set of positions
NthPosition(positions, i) ==
    CHOOSE j \in positions : Cardinality({q \in positions : q < j}) = i - 1

\* C23: get_top_evidence returns, in reranked order, the first top_k of the
\* reranked items whose relevance_score is at least min_score: never more
\* than top_k items, never an item below min_score, and no item reaching
\* min_score is left out while a lower-scored item is returned.
C23_TopKAboveMinScore ==
    c_op = "get_top_evidence" =>
        LET out == c_out.value
            reranked == rerank_evidence(c_args.claim, c_args.evidence_list, NoWeights)
            qualifying == Qualifying(reranked, c_args.min_score)
            kept == {NthPosition(qualifying, i) : i \in 1..Len(out)}
        IN  /\ Len(out) = Min2(c_args.top_k, Cardinality(qualifying))
            /\ Len(out) <= c_args.top_k
            /\ \A i \in 1..Len(out) :
                  /\ out[i] = reranked[NthPosition(qualifying, i)]
                  /\ FltLe(c_args.min_score, out[i].relevance_score)
            /\ \A j \in qualifying \ kept : \A i \in 1..Len(out) :
                  ~FltLt(out[i].relevance_score, reranked[j].relevance_score)

\* a call where the threshold removes an item and top_k cuts another one off
C23_Witness ==
    /\ c_op = "get_top_evidence"
    /\ c_args.top_k >= 1
    /\ Len(c_out.value) = c_args.top_k
    /\ LET reranked == rerank_evidence(c_args.claim, c_args.evidence_list, NoWeights)
           qualifying == Qualifying(reranked, c_args.min_score)
       IN  /\ Cardinality(qualifying) < Len(reranked)
           /\ c_args.top_k < Cardinality(qualifying)

(***************************************************************************)
(* Claims about the range of relevance_score                               *)
(***************************************************************************)
\* the score lies within [0, 1]
InUnitInterval(score) == FltLe(FltZero, score) /\ FltLe(score, FltOne)

\* weights that are non-negative and sum to at most 1
ConvexWeights(weights) ==
    /\ FltLe(FltZero, weights.domain_authority)
    /\ FltLe(FltZero, weights.keyword_overlap)
    /\ FltLe(FltZero, weights.recency)
    /\ FltLe(FltAdd(FltAdd(weights.domain_authority, weights.keyword_overlap),
                    weights.recency),
             FltOne)

\* C24 (as stated): every item returned by rerank_evidence has relevance_score
\* within [0, 1], for the default weights and for any weights of the caller.
C24_ScoreInUnitInterval ==
    r_pc = "done" =>
        \A i \in 1..Len(r_ranked) : InUnitInterval(r_ranked[i].relevance_score)

\* C24 (amended): every item returned by rerank_evidence has relevance_score
\* within [0, 1] for the default weights, and for weights of the caller that
\* are non-negative and sum to at most 1.
C24_ScoreInUnitIntervalForConvexWeights ==
    (r_pc = "done" /\ (r_weights = NoWeights \/ ConvexWeights(r_weights))) =>
        \A i \in 1..Len(r_ranked) : InUnitInterval(r_ranked[i].relevance_score)

\* a call with convex weights of the caller that returns three items of
\* different scores
C24_Witness ==
    /\ r_pc = "done"
    /\ Len(r_ranked) = 3
    /\ r_weights # NoWeights
    /\ ConvexWeights(r_weights)
    /\ FltLt(r_ranked[3].relevance_score, r_ranked[1].relevance_score)
    /\ FltLt(Flt(1, 2), r_ranked[1].relevance_score)

(***************************************************************************)
(* Claims about BatchEvaluator.evaluate_with_confidence                    *)
(***************************************************************************)
\* the positions of the input items whose confidence reaches the threshold,
\* an item without a confidence counting as 0
KeptPositions ==
    {i \in 1..Len(c_args.results) :
        IF "confidence" \in DOMAIN c_args.results[i]
        THEN RatLe(c_args.confidence_threshold, c_args.results[i].confidence)
        ELSE RatLe(c_args.confidence_threshold, Rat(0, 1))}

\* C25: for any list of results and any threshold evaluate_with_confidence
\* returns a report whose metrics are those of calculate_metrics over exactly
\* the items with confidence >= threshold, with filtered_results the number
\* of kept items, total_results the number of input items and coverage =
\* filtered/total (0.0 for an empty input).
C25_ReportOverKeptItems ==
    c_op = "evaluate_with_confidence" =>
        LET n == Cardinality(KeptPositions)
            kept == [i \in 1..n |-> c_args.results[NthPosition(KeptPositions, i)]]
            expected == calculate_metrics([i \in 1..n |-> kept[i].ground_truth],
                                          [i \in 1..n |-> kept[i].label])
            total == Len(c_args.results)
        IN  /\ ~c_out.raised
            /\ c_out.value.filtered_results = n
            /\ c_out.value.total_results = total
            /\ IF total = 0 THEN RatEq(c_out.value.coverage, Rat(0, 1))
               ELSE RatEq(c_out.value.coverage, Rat(n, total))
            /\ ~expected.raised
            /\ RatEq(c_out.value.metrics.precision, expected.value.precision)
            /\ RatEq(c_out.value.metrics.recall, expected.value.recall)
            /\ RatEq(c_out.value.metrics.f1_score, expected.value.f1_score)
            /\ RatEq(c_out.value.metrics.accuracy, expected.value.accuracy)

(***************************************************************************)
(* Claims about the returned record                                        *)
(***************************************************************************)
\* C26: on every return path of process_video the status is completed or
\* failed, never processing; the returned record has an error entry if and
\* only if its status is failed; a failed record has empty verifications.
C26_TerminalStatusAndError ==
    p_pc = "returned" =>
        /\ results.status \in {"completed", "failed"}
        /\ results.status # "processing"
        /\ ("error" \in DOMAIN results) <=> (results.status = "failed")
        /\ results.status = "failed" => results.verifications = <<>>

\* a failed return with its error entry, after the audio was extracted
C26_Witness ==
    /\ p_pc = "returned"
    /\ results.status = "failed"
    /\ "error" \in DOMAIN results
    /\ results.error = "Transcription failed"
    /\ LastInvoked = "transcribe_audio"
    /\ results.verifications = <<>>

(***************************************************************************)
(* Claims about verification as a whole                                    *)
(***************************************************************************)
\* C27: verification inside process_video is all-or-nothing.  A run that ends
\* completed with a non-empty claims list has no verification or one per
\* claim; when verifying the k-th claim fails, the results obtained for the
\* claims 1..k-1 are discarded, the claims after k are not verified, and the
\* run still ends completed with no error recorded.
C27_VerificationAllOrNothing ==
    /\ (p_pc = "returned" /\ results.status = "completed" /\ results.claims # <<>>) =>
          Len(results.verifications) \in {0, Len(results.claims)}
    /\ \A k \in 1..Len(gemini_calls) :
          gemini_calls[k].outcome.raised =>
             /\ \A j \in 1..(k - 1) : ~gemini_calls[j].outcome.raised
             /\ Len(gemini_calls) = k
             /\ k <= Len(claims_data)
             /\ verifications = <<>>
             /\ results.verifications = <<>>
             /\ p_pc = "returned" =>
                   /\ results.status = "completed"
                   /\ "error" \notin DOMAIN results

\* the first claim was verified, the second failed: nothing is kept
C27_Witness ==
    /\ p_pc = "returned"
    /\ Len(claims_data) = 2
    /\ Len(gemini_calls) = 2
    /\ ~gemini_calls[1].outcome.raised
    /\ gemini_calls[2].outcome.raised
    /\ results.verifications = <<>>
    /\ results.status = "completed"

(***************************************************************************)
(* Claims about the lower bound of the baseline confidence                 *)
(***************************************************************************)
\* C28: the confidence returned by BaselineModel.verify_claim is at least
\* 0.5, and it is 0.5 exactly when the label is uncertain: for the labels
\* true and false the winning count w satisfies w/(other two counts + 1) > 1/2
\* and the confidence is greater than 0.5.
C28_ConfidenceAtLeastHalf ==
    b_pc = "done" =>
        /\ RatLe(Rat(1, 2), b_result.confidence)
        /\ RatEq(b_result.confidence, Rat(1, 2)) <=> (b_result.label = "uncertain")
        /\ b_result.label = "false" =>
              /\ RatLt(Rat(1, 2), Rat(CountF, CountT + CountU + 1))
              /\ RatLt(Rat(1, 2), b_result.confidence)
        /\ b_result.label = "true" =>
              /\ RatLt(Rat(1, 2), Rat(CountT, CountF + CountU + 1))
              /\ RatLt(Rat(1, 2), b_result.confidence)

\* a decided label whose quotient lies strictly between 1/2 and 1
C28_Witness ==
    /\ b_pc = "done"
    /\ b_result.label \in {"true", "false"}
    /\ RatLt(Rat(1, 2), b_result.confidence)
    /\ RatLt(b_result.confidence, Rat(1, 1))

(***************************************************************************)
(* Claims about concurrent /transcribe requests                            *)
(***************************************************************************)
\* C29: concurrent /transcribe requests do not interfere, for any
\* interleaving at their await points and also for uploads of the same
\* filename: a request's temporary file exists, holding the bytes it
\* uploaded, from its write until its transcription has finished; the
\* request transcribes exactly the bytes it uploaded; and its file is
\* removed before it responds, on success and on failure.
C29_RequestsDoNotInterfere ==
    \A r \in Requests :
        /\ s_pc[r] = "written" =>
              /\ Exists(s_tmp, s_path[r])
              /\ s_files[s_tmp[s_path[r]]] = Upload(r)
        /\ (s_pc[r] \in {"transcribed", "failed", "responded"} /\ s_content[r] # <<>>) =>
              s_heard[r] = Audio(Upload(r))
        /\ s_pc[r] = "responded" => \A path \in DOMAIN s_tmp : s_tmp[path] # s_f[r]

(***************************************************************************)
(* Claims about the defaults of get_top_evidence                           *)
(***************************************************************************)
\* C30: with the default weights every relevance_score of rerank_evidence is
\* at least 0.3 (domain score >= 0.5, keyword score >= 0, recency score >=
\* 0.5), so the default min_score = 0.3 removes nothing: get_top_evidence
\* with default arguments returns exactly the first min(3, N) items of
\* rerank_evidence.
C30_DefaultsKeepTopThree ==
    c_op = "get_top_evidence_defaults" =>
        LET evidence_list == c_args.evidence_list
            reranked == rerank_evidence(c_args.claim, evidence_list, NoWeights)
        IN  /\ \A i \in 1..Len(evidence_list) :
                  /\ FltLe(Flt(1, 2), get_domain_authority_score(evidence_list[i].url))
                  /\ FltLe(FltZero,
                           calculate_keyword_overlap(c_args.claim, evidence_list[i].snippet))
                  /\ FltLe(Flt(1, 2), calculate_recency_score(evidence_list[i].snippet))
            /\ \A i \in 1..Len(reranked) : FltLe(Flt(3, 10), reranked[i].relevance_score)
            /\ Len(c_out.value) = Min2(3, Len(evidence_list))
            /\ c_out.value = SubSeq(reranked, 1, Min2(3, Len(evidence_list)))

\* four items, of which the three best are returned, the last of them with
\* the lowest score there is: 0.5 * 0.4 + 0.5 * 0.2
C30_Witness ==
    /\ c_op = "get_top_evidence_defaults"
    /\ Len(c_args.evidence_list) = 4
    /\ Len(c_out.value) = 3
    /\ c_out.value[3].relevance_score =
          FltAdd(FltMul(Flt(1, 2), Flt(4, 10)), FltMul(Flt(1, 2), Flt(2, 10)))
    /\ FltLt(c_out.value[3].relevance_score, c_out.value[1].relevance_score)

====
